---- MODULE Spec2Model ----
(***************************************************************************)
(* A model of the signal evaluation and backtesting engine of app.py:      *)
(* the technical condition mask (check_conditions), the statement          *)
(* normalisation and streak masks (process_fundamental_data,               *)
(* calculate_growth_mask, calculate_surplus_mask), the forward-return      *)
(* simulator (backtest_single_stock) and the scan loop of tab 2.           *)
(*                                                                         *)
(* Amounts are Python floats (IEEE-754 binary64).  TLC's integers are 32   *)
(* bits wide, so a float is kept as sign, mantissa and binary exponent,    *)
(* the mantissa as a list of limbs, and every arithmetic step rounds to 53 *)
(* bits, nearest-even, as the hardware does.  Magnitudes stay far from the *)
(* subnormal and overflow ranges, which are therefore not modelled.        *)
(***************************************************************************)
EXTENDS Integers, Sequences, FiniteSets, TLC

\* ------------------------------------------------------------------------
\* State
\* ------------------------------------------------------------------------
VARIABLES
  pc,            \* where the modelled call or script run stands
  filings,       \* what get_fundamental_data returned: rows, <<>> for None
  fund_params,   \* condition['fundamental']
  date_index,    \* df.index of process_fundamental_data's caller: the trading days
  fund_df,       \* fund_df as process_fundamental_data holds it when it returns
  Fundamental,   \* df['Fundamental']: date_index -> BOOLEAN, <<>> while df has no such column
  df,            \* the price frame: the bars [Date, Open, Close, Volume] in date order
  MA,            \* the MA columns of df: MA[p] is df['MA{p}']
  condition,     \* the ConditionSpec: rule kind -> its parameters
  Signal,        \* df['Signal'], by row; <<>> before it is set
  DataReader,    \* the price provider: security code -> what a fetch of it does
  start_date,    \* the evaluation window and the horizon, as the sidebar has them
  end_date,
  n_days,
  target_stocks, \* the securities to evaluate: rows [index, Code, Name]
  res,           \* the results of the last backtest_single_stock call
  button,        \* the button of tab 2 that was pressed
  use_fundamental,   \* the checkbox of the fundamental conditions
  opendart_api_key,  \* the key typed in the sidebar, "" when none
  fund_rules,        \* the rules ticked in the expander: key -> value
  condition_params,  \* the sidebar's ConditionSpec
  idx,           \* passes of the scan loop begun
  progress,      \* what progress_bar shows: <<numerator, denominator>>
  final_results, \* the summary rows of the scan
  filtered_summary   \* the table the scan shows

fundVars == <<filings, fund_params, date_index, fund_df, Fundamental>>

techVars == <<df, MA, condition, Signal>>

callVars == <<DataReader, start_date, end_date, n_days, target_stocks, res>>

scanVars ==
  <<button, use_fundamental, opendart_api_key, fund_rules, condition_params,
    idx, progress, final_results, filtered_summary>>

vars == <<pc, fundVars, techVars, callVars, scanVars>>

\* the values of the variables a specification does not use
FundIdle ==
  /\ filings = <<>>
  /\ fund_params = <<>>
  /\ date_index = {}
  /\ fund_df = <<>>

TechIdle ==
  /\ df = <<>>
  /\ MA = <<>>
  /\ condition = <<>>
  /\ Signal = <<>>

\* res before any call: None
NoResult == [none |-> TRUE, rows |-> <<>>]

CallIdle ==
  /\ DataReader = <<>>
  /\ start_date = 0
  /\ end_date = 0
  /\ n_days = 0
  /\ target_stocks = <<>>
  /\ res = NoResult

ScanIdle ==
  /\ button = ""
  /\ use_fundamental = FALSE
  /\ opendart_api_key = ""
  /\ fund_rules = <<>>
  /\ condition_params = <<>>
  /\ idx = 0
  /\ progress = <<>>
  /\ final_results = <<>>
  /\ filtered_summary = <<>>

\* ------------------------------------------------------------------------
\* Natural numbers of any size: little-endian limbs in base 2^15, no zero
\* limb on top; the empty sequence is 0.  The operators avoid deep
\* recursion: a shift, a comparison or a rounding is one pass over the limbs.
\* ------------------------------------------------------------------------
LimbBits == 15

Base == 2 ^ LimbBits

Max2(a, b) == IF a > b THEN a ELSE b

Min2(a, b) == IF a < b THEN a ELSE b

SetMax(S) == CHOOSE x \in S : \A y \in S : y <= x

SetMin(S) == CHOOSE x \in S : \A y \in S : x <= y

Limb(a, i) == IF i >= 1 /\ i <= Len(a) THEN a[i] ELSE 0

BigTrim(a) ==
  LET nz == {i \in 1..Len(a) : a[i] # 0}
  IN  IF nz = {} THEN <<>> ELSE SubSeq(a, 1, SetMax(nz))

BigNat(n) == BigTrim(<<n % Base, (n \div Base) % Base, n \div (Base * Base)>>)

\* -1, 0 or 1 as a < b, a = b, a > b
BigCmp(a, b) ==
  LET diff == {i \in 1..Max2(Len(a), Len(b)) : Limb(a, i) # Limb(b, i)}
  IN  IF diff = {} THEN 0
      ELSE IF Limb(a, SetMax(diff)) < Limb(b, SetMax(diff)) THEN -1 ELSE 1

RECURSIVE BigAddAt(_, _, _, _)
BigAddAt(a, b, i, carry) ==
  IF i > Len(a) /\ i > Len(b)
    THEN (IF carry = 0 THEN <<>> ELSE <<carry>>)
    ELSE LET s == Limb(a, i) + Limb(b, i) + carry
         IN  <<s % Base>> \o BigAddAt(a, b, i + 1, s \div Base)

BigAdd(a, b) == BigAddAt(a, b, 1, 0)

RECURSIVE BigSubAt(_, _, _, _)
BigSubAt(a, b, i, borrow) ==
  IF i > Len(a) THEN <<>>
  ELSE LET s == a[i] - Limb(b, i) - borrow
       IN  IF s < 0 THEN <<s + Base>> \o BigSubAt(a, b, i + 1, 1)
                    ELSE <<s>> \o BigSubAt(a, b, i + 1, 0)

\* a - b for a >= b
BigSub(a, b) == BigTrim(BigSubAt(a, b, 1, 0))

RECURSIVE BigMulAt(_, _, _, _)
BigMulAt(a, k, i, carry) ==
  IF i > Len(a)
    THEN (IF carry = 0 THEN <<>> ELSE <<carry>>)
    ELSE LET s == a[i] * k + carry
         IN  <<s % Base>> \o BigMulAt(a, k, i + 1, s \div Base)

\* a * k for 0 <= k < Base
BigMulSmall(a, k) == IF k = 0 THEN <<>> ELSE BigMulAt(a, k, 1, 0)

RECURSIVE BigMulBig(_, _, _)
BigMulBig(a, b, i) ==
  IF i > Len(b) THEN <<>>
  ELSE LET rest == BigMulBig(a, b, i + 1)
       IN  BigAdd(BigMulSmall(a, b[i]),
                  IF Len(rest) = 0 THEN <<>> ELSE <<0>> \o rest)

\* a * b
BigMul(a, b) == BigTrim(BigMulBig(a, b, 1))

\* a * 2^n
BigShl(a, n) ==
  LET w == n \div LimbBits
      s == n % LimbBits
  IN  IF Len(a) = 0 THEN a
      ELSE BigTrim([i \in 1..(Len(a) + w + 1) |->
             ((Limb(a, i - w) * (2 ^ s)) % Base)
               + (Limb(a, i - w - 1) \div (2 ^ (LimbBits - s)))])

\* a \div 2^n
BigShr(a, n) ==
  LET w == n \div LimbBits
      s == n % LimbBits
  IN  IF Len(a) <= w THEN <<>>
      ELSE BigTrim([i \in 1..(Len(a) - w) |->
             (Limb(a, i + w) \div (2 ^ s))
               + ((Limb(a, i + w + 1) % (2 ^ s)) * (2 ^ (LimbBits - s)))])

\* bit n of a (bit 0 is the lowest)
BigBit(a, n) == (Limb(a, (n \div LimbBits) + 1) \div (2 ^ (n % LimbBits))) % 2

\* whether a bit of a below bit n is set
BigLowBits(a, n) ==
  \/ \E i \in 1..Min2(Len(a), n \div LimbBits) : a[i] # 0
  \/ (Limb(a, (n \div LimbBits) + 1) % (2 ^ (n % LimbBits))) # 0

BigIsOdd(a) == Len(a) > 0 /\ a[1] % 2 = 1

BitLen(n) == IF n = 0 THEN 0 ELSE SetMin({k \in 1..LimbBits : n < 2 ^ k})

BigBitLen(a) ==
  IF Len(a) = 0 THEN 0 ELSE LimbBits * (Len(a) - 1) + BitLen(a[Len(a)])

\* the number of zero bits below the lowest set bit of a # 0
BigTrailingZeros(a) ==
  LET i == SetMin({j \in 1..Len(a) : a[j] # 0})
  IN  LimbBits * (i - 1) + SetMax({k \in 0..(LimbBits - 1) : a[i] % (2 ^ k) = 0})

\* One digit of the long division of r * Base by d, for r < d and the top
\* limb of d at least Base / 2: the digit estimated from the leading limbs
\* is at most 2 too large (Knuth, TAOCP 4.3.1, Theorem B).
DivDigit(r, d) ==
  LET rr   == <<0>> \o r
      n    == Len(d)
      top  == (Limb(rr, n + 1) * Base) + Limb(rr, n)
      qhat == Min2(top \div d[n], Base - 1)
      q    == SetMax({c \in {qhat, qhat - 1, qhat - 2} :
                        c >= 0 /\ BigCmp(BigMulSmall(d, c), BigTrim(rr)) <= 0})
  IN  <<q, BigSub(BigTrim(rr), BigMulSmall(d, q))>>

\* ------------------------------------------------------------------------
\* Python floats.  A finite float is (-1)^neg * man * 2^exp with man odd
\* (or empty for zero), so that equal floats are equal records.
\* ------------------------------------------------------------------------
Precision == 53

F64Zero == [neg |-> FALSE, man |-> <<>>, exp |-> 0]

IsZero(x) == Len(x.man) = 0

\* the element of a one-element set: Only({e(v) : v \in {a}}) is e(a) with a
\* worked out once
Only(S) == CHOOSE r \in S : TRUE

Canon(neg, m, e) ==
  Only({IF Len(a) = 0 THEN F64Zero
        ELSE Only({[neg |-> neg, man |-> BigShr(a, z), exp |-> e + z] :
                     z \in {BigTrailingZeros(a)}}) :
          a \in {m}})

\* m * 2^e (plus, with sticky0, a nonzero amount below the lowest bit of m)
\* rounded to Precision bits: round-to-nearest, ties to even
F64Round(neg, m, e, sticky0) ==
  Only({IF drop <= 0 THEN Canon(neg, m, e)
        ELSE Only({LET rnd    == BigBit(m, drop - 1) = 1
                       sticky == sticky0 \/ BigLowBits(m, drop - 1)
                       up     == rnd /\ (sticky \/ BigIsOdd(kept))
                   IN  Canon(neg, IF up THEN BigAdd(kept, <<1>>) ELSE kept, e + drop) :
                     kept \in {BigShr(m, drop)}}) :
          drop \in {BigBitLen(m) - Precision}})

F64(n) == Canon(n < 0, BigNat(IF n < 0 THEN -n ELSE n), 0)

F64Neg(x) == Only({IF IsZero(a) THEN a ELSE [a EXCEPT !.neg = ~a.neg] : a \in {x}})

F64Abs(x) == [x EXCEPT !.neg = FALSE]

\* the mantissa of x over the common exponent Min2(x.exp, y.exp)
AlignedMan(x, y) == BigShl(x.man, x.exp - Min2(x.exp, y.exp))

\* compare |x| and |y|
CmpMag(x, y) ==
  IF IsZero(x) \/ IsZero(y)
    THEN (IF IsZero(x) /\ IsZero(y) THEN 0 ELSE IF IsZero(x) THEN -1 ELSE 1)
  ELSE LET tx == BigBitLen(x.man) + x.exp
           ty == BigBitLen(y.man) + y.exp
       IN  IF tx < ty THEN -1
           ELSE IF tx > ty THEN 1
           ELSE BigCmp(AlignedMan(x, y), AlignedMan(y, x))

\* -1, 0 or 1 as x < y, x = y, x > y
F64Cmp(x, y) ==
  Only({IF IsZero(a) /\ IsZero(b) THEN 0
        ELSE IF a.neg /\ ~IsZero(a) /\ (IsZero(b) \/ ~b.neg) THEN -1
        ELSE IF (IsZero(a) \/ ~a.neg) /\ b.neg /\ ~IsZero(b) THEN 1
        ELSE IF a.neg /\ b.neg THEN CmpMag(b, a)
        ELSE CmpMag(a, b) :
          a \in {x}, b \in {y}})

F64Ge(x, y) == F64Cmp(x, y) >= 0

F64Gt(x, y) == F64Cmp(x, y) > 0

F64Le(x, y) == F64Cmp(x, y) <= 0

F64Lt(x, y) == F64Cmp(x, y) < 0

\* a + b for a, b # 0
AddMantissas(a, b) ==
  Only({LET e == Min2(a.exp, b.exp)
            c == BigCmp(ma, mb)
        IN  IF a.neg = b.neg THEN F64Round(a.neg, BigAdd(ma, mb), e, FALSE)
            ELSE IF c = 0 THEN F64Zero
            ELSE IF c > 0 THEN F64Round(a.neg, BigSub(ma, mb), e, FALSE)
            ELSE F64Round(b.neg, BigSub(mb, ma), e, FALSE) :
          ma \in {AlignedMan(a, b)}, mb \in {AlignedMan(b, a)}})

F64Add(x, y) ==
  Only({IF IsZero(a) THEN b ELSE IF IsZero(b) THEN a ELSE AddMantissas(a, b) :
          a \in {x}, b \in {y}})

F64Sub(x, y) == F64Add(x, F64Neg(y))

F64Mul(x, y) ==
  Only({IF IsZero(a) \/ IsZero(b) THEN F64Zero
        ELSE F64Round(a.neg # b.neg, BigMul(a.man, b.man), a.exp + b.exp, FALSE) :
          a \in {x}, b \in {y}})

\* the quotient is developed to QuotientLimbs limbs, more than Precision + 2
\* bits, so that the rounding sees a round bit and a sticky bit
QuotientLimbs == 4

\* n digits of the long division of r * Base^n by d, lowest digit first, and
\* whether a remainder is left
RECURSIVE Quotient(_, _, _)
Quotient(r, d, n) ==
  IF n = 0 THEN <<<<>>, Len(r) > 0>>
  ELSE Only({Only({<<rest[1] \o <<q[1]>>, rest[2]>> :
                     rest \in {Quotient(q[2], d, n - 1)}}) :
               q \in {DivDigit(r, d)}})

\* a / b for a, b # 0
DivMantissas(a, b) ==
  LET bx == BigBitLen(a.man)
      by == BigBitLen(b.man)
      \* b.man is shifted by sD so that its top limb is at least Base / 2
      \* and it is longer than a.man; a.man is shifted by sN to one bit less
      sd == (LimbBits - (by % LimbBits)) % LimbBits
      k  == IF bx < by + sd THEN 0 ELSE ((bx - by - sd) \div LimbBits) + 1
      sD == sd + (LimbBits * k)
      sN == by + sD - 1 - bx
  IN  Only({F64Round(a.neg # b.neg, BigTrim(qs[1]),
                     a.exp - b.exp + sD - sN - QuotientLimbs * LimbBits, qs[2]) :
              qs \in {Quotient(BigShl(a.man, sN), BigShl(b.man, sD), QuotientLimbs)}})

\* x / y for y # 0
F64Div(x, y) ==
  Only({IF IsZero(a) THEN F64Zero ELSE DivMantissas(a, b) : a \in {x}, b \in {y}})

\* ------------------------------------------------------------------------
\* Data frames are sequences of rows (records).  A Timestamp is the integer
\* yyyymmdd, which orders dates as the calendar does.
\* ------------------------------------------------------------------------
DateOf(y, m, d) == (y * 10000) + (m * 100) + d

\* reprt_code values
Q1Report == "11013"

H1Report == "11012"

Q3Report == "11014"

AnnualReport == "11011"

\* canonical account names (account_nm after normalize_account_nm):
\* Revenue, OperatingIncome, NetIncome, Equity, Liabilities,
\* OperatingCashFlow, CapitalExpenditure; derived: FCF, OperatingMargin
Hundred == [neg |-> FALSE, man |-> <<25>>, exp |-> 2]

\* frame[frame[col] == v] and friends: the rows that pass Test, in order
Filter(frame, Test(_)) == SelectSeq(frame, Test)

\* a sequence given by a rule, with its elements worked out once
Listed(s) == SubSeq(s, 1, Len(s))

\* frame.sort_values(col): row i goes to the place given by the number of
\* rows that sort before it (equal keys keep their order of arrival)
SortedBy(frame, Key(_)) ==
  Only({LET Place(i) == 1 + Cardinality({j \in 1..Len(f) :
                          \/ Key(f[j]) < Key(f[i])
                          \/ Key(f[j]) = Key(f[i]) /\ j < i})
        IN  Listed([p \in 1..Len(f) |-> f[CHOOSE i \in 1..Len(f) : Place(i) = p]]) :
          f \in {frame}})

\* drop_duplicates(subset=['year'], keep='last')
DropDuplicateYearsKeepLast(frame) ==
  Only({LET keep == {i \in 1..Len(f) :
                       \A j \in (i + 1)..Len(f) : f[j].year # f[i].year}
            Nth(p) == CHOOSE i \in keep : Cardinality({j \in keep : j <= i}) = p
        IN  Listed([p \in 1..Cardinality(keep) |-> f[Nth(p)]]) :
          f \in {frame}})

\* pd.Series(False, index=index)
AllFalse(index) == [d \in index |-> FALSE]

AllTrue(index) == [d \in index |-> TRUE]

\* ------------------------------------------------------------------------
\* The amounts the drawn filings carry.  thstrm_amount is a decimal string
\* with one fractional digit, kept as the integer number of tenths.
\* ------------------------------------------------------------------------
\* one account's history: a 10% step (100 -> 110), a zero, a negative
GrowthAmounts == {-1000, 0, 1000, 1100}

\* 100, 110, 121, 133.1: three steps of +10%
CompoundAmounts == <<1000, 1100, 1210, 1331>>

\* OperatingCashFlow, CapitalExpenditure, Revenue, OperatingIncome
CashFlowAmounts == {500}

CapexAmounts == {-200}

RevenueAmounts == {0, 1000}

IncomeAmounts == {100}

\* Equity (one negative: impaired capital), Liabilities
EquityAmounts == {-1000, 1000}

LiabilityAmounts == {500, 1500}

DrawnAmounts ==
  GrowthAmounts \cup {CompoundAmounts[i] : i \in 1..Len(CompoundAmounts)}
    \cup CashFlowAmounts \cup CapexAmounts \cup RevenueAmounts
    \cup IncomeAmounts \cup EquityAmounts \cup LiabilityAmounts

\* the float nearest to the decimal tenths / 10
ParseDecimal(tenths) == F64Div(F64(tenths), F64(10))

\* ParseDecimal over the drawn amounts, worked out once (@@ tabulates it)
NumericTable == [t \in DrawnAmounts |-> ParseDecimal(t)] @@ <<>>

\* pd.to_numeric of the amount string
ToNumeric(tenths) ==
  IF tenths \in DOMAIN NumericTable THEN NumericTable[tenths] ELSE ParseDecimal(tenths)

get_release_date(row) ==
  CASE row.reprt_code = Q1Report     -> DateOf(row.year, 5, 15)
    [] row.reprt_code = H1Report     -> DateOf(row.year, 8, 14)
    [] row.reprt_code = Q3Report     -> DateOf(row.year, 11, 14)
    [] row.reprt_code = AnnualReport -> DateOf(row.year + 1, 3, 31)
    [] OTHER                         -> DateOf(row.year, 12, 31)

\* the provider's rows with the amount and release_date columns added
WithAmountAndReleaseDate(frame) ==
  Listed([i \in 1..Len(frame) |->
     [year         |-> frame[i].year,
      reprt_code   |-> frame[i].reprt_code,
      account_nm   |-> frame[i].account_nm,
      amount       |-> ToNumeric(frame[i].thstrm_amount),
      release_date |-> get_release_date(frame[i])]])

SameFiling(a, b) == a.year = b.year /\ a.reprt_code = b.reprt_code

\* the same merge with how='inner': an OperatingCashFlow row without a
\* CapitalExpenditure row of its filing matches nothing
CapexOfInnerJoin(ocf_row, df_capex) ==
  LET matches == Filter(df_capex, LAMBDA c : SameFiling(c, ocf_row))
  IN  Listed([j \in 1..Len(matches) |-> matches[j].amount])

\* pd.merge(df_ocf, df_capex, on=['year','reprt_code'], how='left').fillna(0):
\* the capex amounts matched to one OperatingCashFlow row, 0 when none is
CapexOf(ocf_row, df_capex) ==
  LET matches == Filter(df_capex, LAMBDA c : SameFiling(c, ocf_row))
  IN  IF Len(matches) = 0 THEN <<F64Zero>>
      ELSE Listed([j \in 1..Len(matches) |-> matches[j].amount])

RECURSIVE Flatten(_)
Flatten(seqs) == IF Len(seqs) = 0 THEN <<>> ELSE Head(seqs) \o Flatten(Tail(seqs))

\* the FCF rows appended to the frame
FcfRows(frame) ==
  LET df_ocf   == Filter(frame, LAMBDA r : r.account_nm = "OperatingCashFlow")
      df_capex == Filter(frame, LAMBDA r : r.account_nm = "CapitalExpenditure")
      Row(o, fcf) == [year |-> o.year, reprt_code |-> o.reprt_code,
                      account_nm |-> "FCF", amount |-> fcf,
                      release_date |-> o.release_date]
  IN  IF Len(df_ocf) = 0 THEN <<>>
      ELSE IF Len(df_capex) = 0
        THEN Listed([i \in 1..Len(df_ocf) |-> Row(df_ocf[i], df_ocf[i].amount)])
      ELSE Flatten(Listed([i \in 1..Len(df_ocf) |->
             LET cs == CapexOf(df_ocf[i], df_capex)
             IN  Listed([j \in 1..Len(cs) |->
                    Row(df_ocf[i], F64Sub(df_ocf[i].amount, F64Abs(cs[j])))])]))

\* (op / rev * 100) if rev != 0 else 0
MarginOf(op, rev) ==
  IF ~IsZero(rev) THEN F64Mul(F64Div(op, rev), Hundred) ELSE F64Zero

\* pd.merge(df_rev, df_op, on=['year','reprt_code'], how='inner') and the
\* margin of each matched pair
MarginRows(frame) ==
  LET df_rev == Filter(frame, LAMBDA r : r.account_nm = "Revenue")
      df_op  == Filter(frame, LAMBDA r : r.account_nm = "OperatingIncome")
      Row(r, o) == [year |-> r.year, reprt_code |-> r.reprt_code,
                    account_nm |-> "OperatingMargin",
                    amount |-> MarginOf(o.amount, r.amount),
                    release_date |-> r.release_date]
  IN  Flatten(Listed([i \in 1..Len(df_rev) |->
        LET ops == Filter(df_op, LAMBDA o : SameFiling(o, df_rev[i]))
        IN  Listed([j \in 1..Len(ops) |-> Row(df_rev[i], ops[j])])]))

\* the frame process_fundamental_data holds when it starts on the masks
Normalized(frame) ==
  Only({Only({b \o MarginRows(b) : b \in {a \o FcfRows(a)}}) :
          a \in {WithAmountAndReleaseDate(frame)}})

\* ------------------------------------------------------------------------
\* The masks of the fundamental evaluator
\* ------------------------------------------------------------------------
\* the positions first..n, in order, that pass Holds: the passes of the
\* loop "for i in range(first, n)" whose condition holds
Passes(first, n, Holds(_)) ==
  SelectSeq(Listed([k \in 1..Max2(n - first + 1, 0) |-> first + k - 1]), Holds)

\* result_mask.loc[(index >= dates[i]) & (index < dates[i+1])] = True for
\* every i of passes; the interval of the last date has no end
MarkIntervals(index, dates, passes) ==
  Only({[d \in index |->
           \E k \in 1..Len(ps) :
              /\ d >= ds[ps[k]]
              /\ (ps[k] + 1 <= Len(ds) => d < ds[ps[k] + 1])] :
          ds \in {dates}, ps \in {passes}})

\* every report is taken, for period 'year' too
TargetSeriesOfAllReports(df_main, item_name, period_type) ==
  SortedBy(Filter(df_main, LAMBDA r : r.account_nm = item_name), LAMBDA r : r.release_date)

\* df_target of calculate_growth_mask and calculate_surplus_mask
TargetSeries(df_main, item_name, period_type) ==
  Only({IF period_type = "year"
          THEN DropDuplicateYearsKeepLast(
                 SortedBy(Filter(df_item, LAMBDA r : r.reprt_code = AnnualReport),
                          LAMBDA r : r.year))
          ELSE SortedBy(df_item, LAMBDA r : r.release_date) :
          df_item \in {SortedBy(Filter(df_main, LAMBDA r : r.account_nm = item_name),
                                LAMBDA r : r.release_date)}})

\* (v1 - v0) / abs(v0) * 100 if v0 != 0 else 0
GrowthRateOf(v0, v1) ==
  IF ~IsZero(v0) THEN F64Mul(F64Div(F64Sub(v1, v0), F64Abs(v0)), Hundred)
  ELSE F64Zero

\* GrowthRateOf over the drawn one-account histories, worked out once
GrowthTable ==
  LET drawn == {NumericTable[t] :
                  t \in GrowthAmounts \cup {CompoundAmounts[i] : i \in 1..Len(CompoundAmounts)}}
  IN  [p \in drawn \X drawn |-> GrowthRateOf(p[1], p[2])] @@ <<>>

GrowthRate(v0, v1) ==
  IF <<v0, v1>> \in DOMAIN GrowthTable THEN GrowthTable[<<v0, v1>>]
  ELSE GrowthRateOf(v0, v1)

\* observations needed before a streak can hold
GrowthObservations == 4

SurplusObservations == 3

\* g[i]: the change from values[i - 1] to values[i]; the loop works each
\* of them out again in every window it falls in
GrowthRates(values) ==
  Listed([i \in 1..Len(values) |->
            IF i = 1 THEN F64Zero ELSE GrowthRate(values[i - 1], values[i])])

calculate_growth_mask(df_main, item_name, period_type, n_percent, index) ==
  Only({IF Len(df_target) < GrowthObservations THEN AllFalse(index)
        ELSE Only({LET dates == Listed([i \in 1..Len(df_target) |-> df_target[i].release_date])
                       Holds(i) == /\ F64Ge(g[i - 2], F64(n_percent))
                                   /\ F64Ge(g[i - 1], F64(n_percent))
                                   /\ F64Ge(g[i], F64(n_percent))
                   IN  MarkIntervals(index, dates,
                                     Passes(GrowthObservations, Len(df_target), Holds)) :
                     g \in {GrowthRates(Listed([i \in 1..Len(df_target) |->
                                                  df_target[i].amount]))}}) :
          df_target \in {TargetSeries(df_main, item_name, period_type)}})

\* a value of zero is taken for a surplus
SurplusMaskOfNonNegative(df_main, item_name, period_type, index) ==
  Only({LET dates == Listed([i \in 1..Len(df_target) |-> df_target[i].release_date])
            Holds(i) == /\ F64Ge(df_target[i - 2].amount, F64Zero)
                        /\ F64Ge(df_target[i - 1].amount, F64Zero)
                        /\ F64Ge(df_target[i].amount, F64Zero)
        IN  IF Len(df_target) < SurplusObservations THEN AllFalse(index)
            ELSE MarkIntervals(index, dates,
                               Passes(SurplusObservations, Len(df_target), Holds)) :
          df_target \in {TargetSeries(df_main, item_name, period_type)}})

calculate_surplus_mask(df_main, item_name, period_type, index) ==
  Only({LET dates == Listed([i \in 1..Len(df_target) |-> df_target[i].release_date])
            Holds(i) == /\ F64Gt(df_target[i - 2].amount, F64Zero)
                        /\ F64Gt(df_target[i - 1].amount, F64Zero)
                        /\ F64Gt(df_target[i].amount, F64Zero)
        IN  IF Len(df_target) < SurplusObservations THEN AllFalse(index)
            ELSE MarkIntervals(index, dates,
                               Passes(SurplusObservations, Len(df_target), Holds)) :
          df_target \in {TargetSeries(df_main, item_name, period_type)}})

\* sorted(S)
SortedSeq(S) ==
  Listed([p \in 1..Cardinality(S) |->
            CHOOSE a \in S : Cardinality({b \in S : b <= a}) = p])

\* (liab / equity) * 100 <= val, for equity > 0
RatioWithin(liab, equity, val) ==
  /\ F64Gt(equity, F64Zero)
  /\ F64Le(F64Mul(F64Div(liab, equity), Hundred), F64(val))

\* the debt_ratio branch of process_fundamental_data: the pivot of the frame
\* by release_date has one row for every release date of any account
DebtRatioMask(frame, val, index) ==
  Only({LET \* row.get(account): the rows of that account on that date
            Cell(i, acct) == Filter(frame, LAMBDA r : r.release_date = dates[i]
                                                      /\ r.account_nm = acct)
            Holds(i) ==
              \E eq \in {Cell(i, "Equity")}, li \in {Cell(i, "Liabilities")} :
                 /\ Len(eq) > 0
                 /\ Len(li) > 0
                 /\ RatioWithin(li[Len(li)].amount, eq[Len(eq)].amount, val)
        IN  MarkIntervals(index, dates, Passes(1, Len(dates), Holds)) :
          dates \in {SortedSeq({frame[i].release_date : i \in 1..Len(frame)})}})

\* key.split('_')[0]
KeyPrefix(key) ==
  CASE key \in {"rev_3y", "rev_3q"}       -> "rev"
    [] key \in {"op_3y", "op_3q"}         -> "op"
    [] key \in {"net_3y", "net_3q"}       -> "net"
    [] key \in {"margin_3y", "margin_3q"} -> "margin"
    [] key \in {"fcf_3y", "fcf_3q"}       -> "fcf"
    [] OTHER                              -> key

\* 'year' if '3y' in key else 'quarter'
KeyPeriod(key) ==
  IF key \in {"rev_3y", "op_3y", "net_3y", "margin_3y", "fcf_3y"}
    THEN "year" ELSE "quarter"

\* the keys with '3y' or '3q' in them
StreakKeys ==
  {"rev_3y", "rev_3q", "op_3y", "op_3q", "net_3y", "net_3q",
   "margin_3y", "margin_3q", "fcf_3y", "fcf_3q"}

item_map ==
  [rev |-> "Revenue", op |-> "OperatingIncome", net |-> "NetIncome",
   margin |-> "OperatingMargin", fcf |-> "FCF"]

\* the mask one (key, val) item of params contributes to final_mask
KeyMask(frame, key, val, index) ==
  IF key = "api_key" THEN AllTrue(index)
  ELSE IF key = "debt_ratio" THEN DebtRatioMask(frame, val, index)
  ELSE IF key \in StreakKeys /\ KeyPrefix(key) \in DOMAIN item_map
    THEN (IF KeyPrefix(key) = "fcf"
            THEN calculate_surplus_mask(frame, item_map[KeyPrefix(key)],
                                        KeyPeriod(key), index)
            ELSE calculate_growth_mask(frame, item_map[KeyPrefix(key)],
                                       KeyPeriod(key), val, index))
  ELSE AllTrue(index)

\* rows is the provider's frame, <<>> for None or an empty frame
process_fundamental_data(index, rows, params) ==
  IF Len(rows) = 0 THEN AllFalse(index)
  ELSE Only({[d \in index |-> \A key \in DOMAIN params : masks[key][d]] :
               masks \in {Only({[key \in DOMAIN params |->
                                   KeyMask(frame, key, params[key], index)] @@ <<>> :
                                  frame \in {Normalized(rows)}})}})

\* ------------------------------------------------------------------------
\* Price frames.  df is the sequence of daily bars [Date, Open, Close,
\* Volume] in date order (row k of the frame is df[k + 1]); MA[p] is the
\* column MA{p} of the frame and Fundamental its column of that name, <<>>
\* when the frame has none.  Prices and volumes are positive integers.
\* ------------------------------------------------------------------------
\* the missing value of a float column
NaN == [neg |-> FALSE, man |-> <<>>, exp |-> -1]

\* x op y on floats; every comparison with NaN is false
Compare(x, op, y) ==
  /\ x # NaN
  /\ y # NaN
  /\ Only({CASE op = ">"  -> c > 0
             [] op = "<"  -> c < 0
             [] op = ">=" -> c >= 0
             [] op = "<=" -> c <= 0 :
             c \in {F64Cmp(x, y)}})

\* df[name]
Column(bars, name) == Listed([i \in 1..Len(bars) |-> bars[i][name]])

\* col.shift(1)
Shift(col) == IF Len(col) = 0 THEN col ELSE <<NaN>> \o SubSeq(col, 1, Len(col) - 1)

\* the sums col[1] + ... + col[i]
RECURSIVE RunningSum(_)
RunningSum(col) ==
  IF Len(col) <= 1 THEN col
  ELSE Only({Only({lo \o Listed([i \in 1..Len(hi) |-> lo[Len(lo)] + hi[i]]) :
                     hi \in {RunningSum(SubSeq(col, Len(lo) + 1, Len(col)))}}) :
               lo \in {RunningSum(SubSeq(col, 1, Len(col) \div 2))}})

\* col.rolling(window=p).mean(): NaN on the first p - 1 rows, then the sum
\* of the last p values (exact, the values being integers) over p
RollingMean(col, p) ==
  Only({LET Window(i) == run[i] - (IF i = p THEN 0 ELSE run[i - p])
        IN  Only({Listed([i \in 1..Len(col) |-> IF i < p THEN NaN ELSE mean[Window(i)]]) :
                    mean \in {[s \in {Window(i) : i \in p..Len(col)} |->
                                 F64Div(F64(s), F64(p))] @@ <<>>}}) :
          run \in {RunningSum(col)}})

\* periods=[5, 20, 60, 120]
MaPeriods == {5, 20, 60, 120}

\* the MA columns calculate_mas adds to the frame
calculate_mas(bars, periods) ==
  Only({[p \in periods |-> RollingMean(close, p)] @@ <<>> :
          close \in {Column(bars, "Close")}})

\* col.pct_change() * 100, pct_change being col / col.shift(1) - 1
PctChange(col) ==
  Only({Listed([i \in 1..Len(col) |->
                  IF i = 1 THEN NaN ELSE pct[<<col[i - 1], col[i]>>]]) :
          pct \in {[pr \in {<<col[i - 1], col[i]>> : i \in 2..Len(col)} |->
                      F64Mul(F64Sub(F64Div(F64(pr[2]), F64(pr[1])), F64(1)), Hundred)]
                   @@ <<>>}})

\* r_min, r_max of a change rule; r_max is float('inf') where open holds.
\* The range '9이상' is written "9+".
ChangeBand(range) ==
  CASE range = "3~5" -> [min |-> 3, max |-> 5, open |-> FALSE]
    [] range = "5~7" -> [min |-> 5, max |-> 7, open |-> FALSE]
    [] range = "7~9" -> [min |-> 7, max |-> 9, open |-> FALSE]
    [] range = "9+"  -> [min |-> 9, max |-> 0, open |-> TRUE]
    [] OTHER         -> [min |-> 0, max |-> 0, open |-> TRUE]

\* v_min, v_max of a volume rule; the range '300이상' is written "300+"
VolumeBand(range) ==
  CASE range = "100~200" -> [min |-> 100, max |-> 200, open |-> FALSE]
    [] range = "200~300" -> [min |-> 200, max |-> 300, open |-> FALSE]
    [] range = "300+"    -> [min |-> 300, max |-> 0, open |-> TRUE]
    [] OTHER             -> [min |-> 0, max |-> 0, open |-> TRUE]

\* the mask of a change or volume rule on the column ret of changes in
\* percent; the direction '상승' is written "up", any other is a fall
BandMask(ret, band, direction) ==
  Only({Listed([i \in 1..Len(r) |->
           IF direction = "up"
             THEN /\ Compare(r[i], ">=", F64(band.min))
                  /\ (band.open \/ Compare(r[i], "<", F64(band.max)))
             ELSE /\ Compare(r[i], "<=", F64(-band.min))
                  /\ (band.open \/ Compare(r[i], ">", F64(-band.max)))]) :
          r \in {ret}})

\* (MA{ma1} > MA{ma2}) & (MA{ma2} > MA{ma3})
MaMask(ma, p) ==
  Listed([i \in 1..Len(ma[p.ma1]) |->
     /\ Compare(ma[p.ma1][i], ">", ma[p.ma2][i])
     /\ Compare(ma[p.ma2][i], ">", ma[p.ma3][i])])

\* the inequality alone, on the current bar
CrossMaskLevelOnly(ma1_col, ma2_col, operator) ==
  Listed([i \in 1..Len(ma1_col) |->
     IF operator = ">" THEN Compare(ma1_col[i], ">", ma2_col[i])
     ELSE Compare(ma1_col[i], "<", ma2_col[i])])

\* the mask of the ma_cross rule
CrossMask(ma1_col, ma2_col, operator) ==
  Only({Listed([i \in 1..Len(ma1_col) |->
           IF operator = ">"
             THEN /\ Compare(prev[1][i], "<=", prev[2][i])
                  /\ Compare(ma1_col[i], ">", ma2_col[i])
             ELSE /\ Compare(prev[1][i], ">=", prev[2][i])
                  /\ Compare(ma1_col[i], "<", ma2_col[i])]) :
          prev \in {<<Shift(ma1_col), Shift(ma2_col)>>}})

\* the mask of the breakout rule; the price types '시가' and '종가' are
\* written by the columns col_map gives them, "Open" and "Close"
BreakoutMask(bars, ma, p) ==
  Listed([i \in 1..Len(bars) |->
     IF p.operator = ">" THEN Compare(F64(bars[i][p.price_type]), ">", ma[p.target_ma][i])
     ELSE Compare(F64(bars[i][p.price_type]), "<", ma[p.target_ma][i])])

\* the bar count below which check_conditions gives up
MinBars == 120

\* one bar fewer is still taken for enough
TooShortByOne(bars) == Len(bars) < MinBars - 1

\* len(df) < 120
TooShort(bars) == Len(bars) < MinBars

\* the masks of the rule kinds of params, in the order they are and-ed
RuleMasks(bars, ma, fund, params) ==
  (IF "ma" \in DOMAIN params THEN <<MaMask(ma, params["ma"])>> ELSE <<>>)
  \o (IF "ma_cross" \in DOMAIN params
        THEN <<CrossMask(ma[params["ma_cross"].ma1], ma[params["ma_cross"].ma2],
                         params["ma_cross"].operator)>>
        ELSE <<>>)
  \o (IF "breakout" \in DOMAIN params
        THEN <<BreakoutMask(bars, ma, params["breakout"])>> ELSE <<>>)
  \o (IF "change" \in DOMAIN params
        THEN <<BandMask(PctChange(Column(bars, "Close")),
                        ChangeBand(params["change"].range),
                        params["change"].direction)>>
        ELSE <<>>)
  \o (IF "volume" \in DOMAIN params
        THEN <<BandMask(PctChange(Column(bars, "Volume")),
                        VolumeBand(params["volume"].range),
                        params["volume"].direction)>>
        ELSE <<>>)
  \o (IF "fundamental" \in DOMAIN params /\ DOMAIN fund # {}
        THEN <<Listed([i \in 1..Len(bars) |-> fund[bars[i].Date]])>> ELSE <<>>)

\* the masks are or-ed: a bar passes when it passes under some rule
CheckConditionsOfAnyRule(bars, ma, fund, params) ==
  IF TooShort(bars) THEN Listed([i \in 1..Len(bars) |-> FALSE])
  ELSE Only({Listed([i \in 1..Len(bars) |->
                       Len(masks) = 0 \/ \E k \in 1..Len(masks) : masks[k][i]]) :
               masks \in {RuleMasks(bars, ma, fund, params)}})

\* bars with the MA columns ma and the Fundamental column fund (<<>> when
\* the frame has none); the result is the mask by row
check_conditions(bars, ma, fund, params) ==
  IF TooShort(bars) THEN Listed([i \in 1..Len(bars) |-> FALSE])
  ELSE Only({Listed([i \in 1..Len(bars) |-> \A k \in 1..Len(masks) : masks[k][i]]) :
               masks \in {RuleMasks(bars, ma, fund, params)}})

\* ------------------------------------------------------------------------
\* The forward-return simulator.  DataReader[code] is what the price
\* provider does for a security: it raises, or it has a history of bars
\* (none for an unknown code), of which a call gets those in its window.
\* Days are counted on a calendar of 28-day months.
\* ------------------------------------------------------------------------
\* the integer nearest to m / 2^k, ties to even (m a limb list, k >= 0)
RoundHalfEven(m, k) ==
  IF k = 0 THEN m
  ELSE Only({IF BigBit(m, k - 1) = 1 /\ (BigLowBits(m, k - 1) \/ BigIsOdd(kept))
               THEN BigAdd(kept, <<1>>) ELSE kept :
               kept \in {BigShr(m, k)}})

\* round(x, 2) of a numpy float: x * 100, to the nearest integer (ties to
\* even), over 100
NumpyRound2(x) ==
  Only({F64Div(IF y.exp >= 0 THEN y
               ELSE Canon(y.neg, RoundHalfEven(y.man, -y.exp), 0), Hundred) :
          y \in {F64Mul(x, Hundred)}})

\* round(x, 2) of a Python float: the decimal of two places nearest to the
\* exact value of x (ties to even), then the float nearest to that decimal
PythonRound2(x) ==
  Only({IF a.exp >= 0 THEN a
        ELSE F64Div(Canon(a.neg, RoundHalfEven(BigMulSmall(a.man, 100), -a.exp), 0),
                    Hundred) :
          a \in {x}})

\* start_date - datetime.timedelta(days=200), on the calendar of TradingDay:
\* the day number of the date less 200, and the date of that day number
FetchStart(from) ==
  LET o == ((from \div 10000) * 336) + ((((from \div 100) % 100) - 1) * 28)
              + ((from % 100) - 1) - 200
  IN  DateOf(o \div 336, ((o \div 28) % 12) + 1, (o % 28) + 1)

\* fdr.DataReader(code, fetch_start, end_date) of a provider that answers
FetchedBars(history, from, to) ==
  Filter(history, LAMBDA b : b.Date >= FetchStart(from) /\ b.Date <= to)

\* ma_periods
MaPeriodsOf(params) ==
  MaPeriods
    \cup (IF "ma" \in DOMAIN params
            THEN {params["ma"].ma1, params["ma"].ma2, params["ma"].ma3} ELSE {})
    \cup (IF "ma_cross" \in DOMAIN params
            THEN {params["ma_cross"].ma1, params["ma_cross"].ma2} ELSE {})
    \cup (IF "breakout" \in DOMAIN params THEN {params["breakout"].target_ma} ELSE {})

\* df['Fundamental'] as backtest_single_stock sets it, <<>> if it does not;
\* filings is what get_fundamental_data returns when it is given a key
FundamentalColumn(bars, params) ==
  IF "fundamental" \notin DOMAIN params THEN <<>>
  ELSE Only({IF "api_key" \in DOMAIN params["fundamental"]
                  /\ params["fundamental"]["api_key"] # ""
               THEN (IF Len(filings) = 0 THEN AllFalse(index)
                     ELSE process_fundamental_data(index, filings, params["fundamental"]))
               ELSE AllFalse(index) :
               index \in {{bars[i].Date : i \in 1..Len(bars)}}})

\* a signal near the end of the frame is not sold at all
FutureIdxUnclamped(current_idx, horizon, len) ==
  IF current_idx + horizon >= len THEN current_idx ELSE current_idx + horizon

\* future_idx: row numbers count from 0
FutureIdx(current_idx, horizon, len) ==
  IF current_idx + horizon >= len THEN len - 1 ELSE current_idx + horizon

\* one row of results.  The keys '종목명', '매수일', '매수가', 'N일후 날짜',
\* 'N일후 가격', '수익률(%)', '결과' are written name, entry_date, entry_price,
\* exit_date, exit_price, return_pct, result; '상승' is "up", '하락' "down"
Trade(name, entry, exit) ==
  Only({[name |-> name,
         entry_date |-> entry.Date, entry_price |-> entry.Close,
         exit_date |-> exit.Date, exit_price |-> exit.Close,
         return_pct |-> NumpyRound2(pct_change),
         result |-> IF F64Gt(pct_change, F64Zero) THEN "up" ELSE "down"] :
          pct_change \in {F64Mul(F64Div(F64(exit.Close - entry.Close), F64(entry.Close)),
                                 Hundred)}})

\* the signal days of the whole frame are traded, not those of the period
TradesOfWholeFrame(bars, signal, name, from, to, horizon) ==
  Only({Listed([k \in 1..Len(sold) |->
                  Trade(name, bars[sold[k] + 1],
                        bars[FutureIdx(sold[k], horizon, Len(bars)) + 1])]) :
          sold \in {Filter(Listed([k \in 1..Len(bars) |-> k - 1]),
                           LAMBDA p : /\ signal[p + 1]
                                      /\ FutureIdx(p, horizon, Len(bars)) > p)}})

\* results: the loop over the signal days of the period
Trades(bars, signal, name, from, to, horizon) ==
  Only({Listed([k \in 1..Len(sold) |->
                  Trade(name, bars[sold[k] + 1],
                        bars[FutureIdx(sold[k], horizon, Len(bars)) + 1])]) :
          sold \in {Filter(Listed([k \in 1..Len(bars) |-> k - 1]),
                           LAMBDA p : /\ bars[p + 1].Date >= from
                                      /\ bars[p + 1].Date <= to
                                      /\ signal[p + 1]
                                      /\ FutureIdx(p, horizon, Len(bars)) > p)}})

\* the outcome of a call: the provider's exception ("raised"), the pair
\* (None, None) ("none"), or the results with the frame ("frame")
backtest_single_stock(code, name, from, to, params, horizon) ==
  IF DataReader[code].raises THEN [outcome |-> "raised"]
  ELSE Only({
    IF Len(bars) = 0 THEN [outcome |-> "none"]
    ELSE Only({
      Only({[outcome |-> "frame",
             results |-> Trades(bars, signal, name, from, to, horizon),
             bars |-> bars, ma |-> ma, fund |-> fund, signal |-> signal] :
              signal \in {check_conditions(bars, ma, fund, params)}}) :
        ma \in {calculate_mas(bars, MaPeriodsOf(params))},
        fund \in {FundamentalColumn(bars, params)}}) :
    bars \in {FetchedBars(DataReader[code].rows, from, to)}})

\* ------------------------------------------------------------------------
\* The scan of tab 2
\* ------------------------------------------------------------------------
\* fund_conditions_tab2: rules are the rules ticked in the expander
FundConditionsTab2(use, key, rules) ==
  IF use /\ key # "" THEN ("api_key" :> key) @@ rules ELSE <<>>

\* scan_conditions
ScanConditions(sidebar, fund_conditions_tab2) ==
  IF DOMAIN fund_conditions_tab2 # {}
    THEN ("fundamental" :> fund_conditions_tab2) @@ sidebar
    ELSE sidebar

\* st.session_state['scan_limit']
ScanLimit == 50

\* target_stocks
TargetStocks(stock_list, pressed) ==
  IF pressed = "scan_all" THEN stock_list
  ELSE SubSeq(stock_list, 1, Min2(ScanLimit, Len(stock_list)))

\* Series.mean(): the sum taken in order, over the count
Mean(col) ==
  LET RECURSIVE Sum(_)
      Sum(n) == IF n = 0 THEN F64Zero ELSE F64Add(Sum(n - 1), col[n])
  IN  F64Div(Sum(Len(col)), F64(Len(col)))

\* the row with the share of the losing trades in the place of the win rate
SummaryOfLosses(row, trades) ==
  Only({[name |-> row.Name, code |-> row.Code, count |-> Len(trades),
         avg_return_pct |-> NumpyRound2(Mean(returns)),
         win_rate_pct |->
           PythonRound2(F64Mul(F64Div(F64(Len(Filter(returns, LAMBDA r : F64Lt(r, F64Zero)))),
                                      F64(Len(trades))), Hundred))] :
          returns \in {Listed([k \in 1..Len(trades) |-> trades[k].return_pct])}})

\* the row appended to final_results.  The keys '종목명', '종목코드', '발생
\* 횟수', '평균 수익률(%)', '승률(%)' are written name, code, count,
\* avg_return_pct, win_rate_pct
Summary(row, trades) ==
  Only({[name |-> row.Name, code |-> row.Code, count |-> Len(trades),
         avg_return_pct |-> NumpyRound2(Mean(returns)),
         win_rate_pct |->
           PythonRound2(F64Mul(F64Div(F64(Len(Filter(returns, LAMBDA r : F64Gt(r, F64Zero)))),
                                      F64(Len(trades))), Hundred))] :
          returns \in {Listed([k \in 1..Len(trades) |-> trades[k].return_pct])}})

\* sort_values(by='평균 수익률(%)', ascending=False): rows of equal average
\* keep their order
SortedByAverage(summary) ==
  LET Place(i) == 1 + Cardinality({j \in 1..Len(summary) :
                      \/ F64Gt(summary[j].avg_return_pct, summary[i].avg_return_pct)
                      \/ /\ summary[j].avg_return_pct = summary[i].avg_return_pct
                         /\ j < i})
  IN  Listed([p \in 1..Len(summary) |->
                summary[CHOOSE i \in 1..Len(summary) : Place(i) = p]])

\* result_summary[result_summary['승률(%)'] >= 50.0] of the sorted summary
FilteredSummary(summary) ==
  Filter(SortedByAverage(summary), LAMBDA s : F64Ge(s.win_rate_pct, F64(50)))

\* ------------------------------------------------------------------------
\* The fundamental evaluator on its own: the filings of one security are
\* drawn, process_fundamental_data is applied to them
\* ------------------------------------------------------------------------
FirstYear == 2020

\* the most filings of a one-account history
MaxObs == 5

\* the most filing periods of a history of cash-flow and income accounts
MaxDerived == 2

\* the most filing periods of a history of balance-sheet accounts
MaxDebt == 3

ReportCodes == <<Q1Report, H1Report, Q3Report, AnnualReport>>

\* the k-th filing period (k = 1, 2, ...) of a history of consecutive
\* reports, and of a history of annual reports only
QuarterlyPeriod(k) ==
  [year |-> FirstYear + ((k - 1) \div 4), reprt_code |-> ReportCodes[((k - 1) % 4) + 1]]

AnnualPeriod(k) == [year |-> FirstYear + k - 1, reprt_code |-> AnnualReport]

Period(shape, k) == IF shape = "annual" THEN AnnualPeriod(k) ELSE QuarterlyPeriod(k)

Shapes == {"quarterly", "annual"}

\* the trading days: every release date a history can have, a day before
\* the first and a day after the last
Calendar ==
  LET rel == {get_release_date(Period(sh, k)) : sh \in Shapes, k \in 1..MaxObs}
  IN  rel \cup {DateOf(FirstYear, 5, 14), DateOf(FirstYear + MaxObs + 1, 4, 1)}

\* a row as dart.finstate gives it, after the account filter
RawRow(period, account, tenths) ==
  [year |-> period.year, reprt_code |-> period.reprt_code,
   account_nm |-> account, thstrm_amount |-> tenths]

\* an account a filing may or may not report: no amount or one
Optional(amounts) == {<<>>} \cup {<<a>> : a \in amounts}

\* the rows of one filing: accounts[j] reported with cells[j], if any
FilingRows(period, accounts, cells) ==
  Flatten([j \in 1..Len(accounts) |->
             IF Len(cells[j]) = 0 THEN <<>>
             ELSE <<RawRow(period, accounts[j], cells[j][1])>>])

\* condition['fundamental'] with the credential and one rule
OneRule(key, val) == [k \in {"api_key", key} |-> IF k = "api_key" THEN "key" ELSE val]

GrowthThreshold == 10

DebtCeiling == 100

\* the credential and no rule: "apply" ticked, nothing chosen below it
InitNoRule ==
  \E n \in 0..2 :
    /\ filings = [k \in 1..n |-> RawRow(QuarterlyPeriod(k), "Revenue", 1000)]
    /\ fund_params = [k \in {"api_key"} |-> "key"]

\* 100, 110, 121, 133.1 filed in a row
InitCompound ==
  \E shape \in Shapes, key \in {"rev_3q", "rev_3y"} :
    /\ filings = [k \in 1..Len(CompoundAmounts) |->
                    RawRow(Period(shape, k), "Revenue", CompoundAmounts[k])]
    /\ fund_params = OneRule(key, GrowthThreshold)

\* a history of one account
InitGrowth ==
  \E shape \in Shapes, n \in 0..MaxObs, key \in {"rev_3q", "rev_3y"} :
    \E amounts \in [1..n -> GrowthAmounts] :
      /\ filings = [k \in 1..n |-> RawRow(Period(shape, k), "Revenue", amounts[k])]
      /\ fund_params = OneRule(key, GrowthThreshold)

DerivedAccounts == <<"OperatingCashFlow", "CapitalExpenditure", "Revenue", "OperatingIncome">>

\* filings that report any of the inputs of the derived metrics
InitDerived ==
  \E n \in 0..MaxDerived, key \in {"fcf_3q", "margin_3q"} :
    \E cells \in [1..n -> Optional(CashFlowAmounts) \X Optional(CapexAmounts)
                            \X Optional(RevenueAmounts) \X Optional(IncomeAmounts)] :
      /\ filings = Flatten([k \in 1..n |->
                      FilingRows(QuarterlyPeriod(k), DerivedAccounts, cells[k])])
      /\ fund_params = OneRule(key, 0)

DebtAccounts == <<"Equity", "Liabilities", "Revenue">>

\* filings that report Equity, Liabilities, both, or neither of them
InitDebt ==
  \E n \in 0..MaxDebt :
    \E cells \in [1..n -> {c \in Optional(EquityAmounts) \X Optional(LiabilityAmounts)
                                   \X Optional({1000}) :
                             Len(c[3]) > 0 => Len(c[1]) = 0 /\ Len(c[2]) = 0}] :
      /\ filings = Flatten([k \in 1..n |->
                      FilingRows(QuarterlyPeriod(k), DebtAccounts, cells[k])])
      /\ fund_params = OneRule("debt_ratio", DebtCeiling)

InitFund ==
  /\ pc = "start"
  /\ date_index = Calendar
  /\ fund_df = <<>>
  /\ Fundamental = <<>>
  /\ TechIdle
  /\ CallIdle
  /\ ScanIdle
  /\ (InitNoRule \/ InitCompound \/ InitGrowth \/ InitDerived \/ InitDebt)

\* df['Fundamental'] = process_fundamental_data(df.index, fund_df, fund_params)
ProcessFundamental ==
  /\ pc = "start"
  /\ Fundamental' = process_fundamental_data(date_index, filings, fund_params)
  /\ fund_df' = IF Len(filings) = 0 THEN filings ELSE Normalized(filings)
  /\ pc' = "done"
  /\ UNCHANGED <<filings, fund_params, date_index, techVars, callVars, scanVars>>

NextFund == ProcessFundamental

SpecFund == InitFund /\ [][NextFund]_vars

\* ------------------------------------------------------------------------
\* The technical evaluator on its own: a price frame with its MA columns
\* and a ConditionSpec are drawn, check_conditions is applied to them
\* ------------------------------------------------------------------------
\* the date of the i-th trading day: twelve months of 28 trading days a
\* year, the MinBars-th day being May 15 of FirstYear
TradingDay(i) ==
  DateOf(FirstYear + ((i + 6) \div 336), (((i + 6) \div 28) % 12) + 1, ((i + 6) % 28) + 1)

\* the bar of a quiet day, and the bars the last days of a series can be
BaseBar == [Open |-> 100, Close |-> 100, Volume |-> 1000]

TailBars ==
  {BaseBar, [Open |-> 100, Close |-> 104, Volume |-> 2500],
            [Open |-> 104, Close |-> 96, Volume |-> 1000]}

\* the number of last days that are drawn
MaxTail == 2

\* series of MinBars - MaxShort to MinBars + MaxExtra bars are drawn
MaxShort == 1

MaxExtra == 1

PriceSeries(len, tail) ==
  Listed([i \in 1..len |->
     Only({[Date |-> TradingDay(i), Open |-> b.Open, Close |-> b.Close, Volume |-> b.Volume] :
             b \in {IF i <= len - Len(tail) THEN BaseBar ELSE tail[i - (len - Len(tail))]}})])

DrawnSeries ==
  {PriceSeries(len, tail) : len \in (MinBars - MaxShort)..(MinBars + MaxExtra),
                            tail \in [1..MaxTail -> TailBars]}

RuleKinds == {"ma", "ma_cross", "breakout", "change", "volume", "fundamental"}

\* two settings of each rule kind, as the sidebar builds them
Rule(kind, variant) ==
  CASE kind = "ma" ->
         IF variant = 1 THEN [ma1 |-> 5, ma2 |-> 20, ma3 |-> 60]
         ELSE [ma1 |-> 60, ma2 |-> 20, ma3 |-> 5]
    [] kind = "ma_cross" ->
         [ma1 |-> 5, ma2 |-> 20, operator |-> IF variant = 1 THEN ">" ELSE "<"]
    [] kind = "breakout" ->
         IF variant = 1 THEN [price_type |-> "Close", operator |-> ">", target_ma |-> 5]
         ELSE [price_type |-> "Open", operator |-> "<", target_ma |-> 20]
    [] kind = "change" ->
         [range |-> "3~5", direction |-> IF variant = 1 THEN "up" ELSE "down"]
    [] kind = "volume" ->
         IF variant = 1 THEN [range |-> "100~200", direction |-> "up"]
         ELSE [range |-> "all", direction |-> "down"]
    [] kind = "fundamental" ->
         IF variant = 1 THEN OneRule("debt_ratio", DebtCeiling)
         ELSE OneRule("rev_3q", GrowthThreshold)

\* no rule, one rule, or a rule of every kind
ConditionSpecs ==
  {[k \in kinds |-> Rule(k, v)] :
     kinds \in {{}} \cup {{k} : k \in RuleKinds} \cup {RuleKinds}, v \in 1..2}

InitTech ==
  /\ pc = "start"
  /\ df \in DrawnSeries
  /\ MA = calculate_mas(df, MaPeriods)
  /\ condition \in ConditionSpecs
  /\ Fundamental \in {<<>>, [d \in {df[i].Date : i \in 1..Len(df)} |-> d >= TradingDay(MinBars)]}
  /\ Signal = <<>>
  /\ FundIdle
  /\ CallIdle
  /\ ScanIdle

CheckConditions ==
  /\ pc = "start"
  /\ Signal' = check_conditions(df, MA, Fundamental, condition)
  /\ pc' = "done"
  /\ UNCHANGED <<df, MA, condition, fundVars, callVars, scanVars>>

NextTech == CheckConditions

SpecTech == InitTech /\ [][NextTech]_vars

\* ------------------------------------------------------------------------
\* The cross rule on its own: the two MA columns of a frame are drawn (the
\* rule reads no other column, df is left empty) and the mask is taken
\* ------------------------------------------------------------------------
\* rows of the frame
CrossLen == 4

\* the most rows on which the longer average is still missing
MaxNaN == 1

CrossColumn(nans, vals) ==
  [i \in 1..CrossLen |-> IF i <= nans THEN NaN ELSE F64(vals[i])]

InitCross ==
  /\ pc = "start"
  /\ df = <<>>
  /\ \E n2 \in 0..MaxNaN, v1 \in [1..CrossLen -> 18..21], v2 \in [1..CrossLen -> 19..20] :
       \E n1 \in 0..n2 :
          MA = (20 :> CrossColumn(n1, v1)) @@ (60 :> CrossColumn(n2, v2))
  /\ condition \in {[k \in {"ma_cross"} |-> [ma1 |-> 20, ma2 |-> 60, operator |-> op]] :
                      op \in {">", "<"}}
  /\ Fundamental = <<>>
  /\ Signal = <<>>
  /\ FundIdle
  /\ CallIdle
  /\ ScanIdle

CrossRule ==
  /\ pc = "start"
  /\ Signal' = CrossMask(MA[condition["ma_cross"].ma1], MA[condition["ma_cross"].ma2],
                         condition["ma_cross"].operator)
  /\ pc' = "done"
  /\ UNCHANGED <<df, MA, condition, fundVars, callVars, scanVars>>

NextCross == CrossRule

SpecCross == InitCross /\ [][NextCross]_vars

\* ------------------------------------------------------------------------
\* The simulator on its own: one security, a provider, a period, a horizon
\* and a ConditionSpec are drawn, backtest_single_stock is called
\* ------------------------------------------------------------------------
\* securities of the universe
MaxStocks == 2

\* get_stock_list(...) of one market
StockList ==
  [k \in 1..MaxStocks |->
     [index |-> k - 1, Code |-> <<"A", "B", "C">>[k], Name |-> <<"Alpha", "Beta", "Gamma">>[k]]]

\* the provider raises, knows no bar of the code, or has a history
Raises == [raises |-> TRUE, rows |-> <<>>]

Answers(history) == [raises |-> FALSE, rows |-> history]

\* one filing of FirstYear's first quarter, released on trading day MinBars,
\* with liabilities at half of equity
SoundFiling ==
  <<RawRow(QuarterlyPeriod(1), "Equity", 1000),
    RawRow(QuarterlyPeriod(1), "Liabilities", 500)>>

\* the period starts on trading day MinBars - StartBack or on day MinBars
StartBack == 6

\* n_days
Horizons == {1, 5}

\* condition as tab 2 can pass it: the sidebar's rules, and the fundamental
\* rules with the key or (a caller's own) without it
BacktestConditions ==
  {<<>>,
   [k \in {"change"} |-> Rule(k, 1)],
   [k \in {"ma_cross"} |-> Rule(k, 2)],
   [k \in {"fundamental"} |-> OneRule("debt_ratio", DebtCeiling)],
   [k \in {"fundamental"} |-> [j \in {"api_key"} |-> ""]],
   [k \in {"change", "fundamental"} |->
      IF k = "change" THEN Rule(k, 2) ELSE OneRule("debt_ratio", DebtCeiling)]}

InitBacktest ==
  /\ pc = "start"
  /\ target_stocks = <<StockList[1]>>
  /\ DataReader \in {[c \in {"A"} |-> r] :
                       r \in {Raises, Answers(<<>>)} \cup {Answers(s) : s \in DrawnSeries}}
  /\ filings \in {<<>>, SoundFiling}
  /\ start_date \in {TradingDay(MinBars - StartBack), TradingDay(MinBars)}
  /\ end_date \in {TradingDay(MinBars), TradingDay(MinBars + MaxExtra)}
  /\ n_days \in Horizons
  /\ condition \in BacktestConditions
  /\ res = NoResult
  /\ df = <<>>
  /\ MA = <<>>
  /\ Fundamental = <<>>
  /\ Signal = <<>>
  /\ fund_params = <<>>
  /\ date_index = {}
  /\ fund_df = <<>>
  /\ ScanIdle

\* result_df, df = backtest_single_stock(code, name, start_date, end_date,
\* condition, n_days); res is [none |-> TRUE] for None, else the results
Backtest ==
  /\ pc = "start"
  /\ \E out \in {backtest_single_stock(target_stocks[1].Code, target_stocks[1].Name,
                                       start_date, end_date, condition, n_days)} :
       /\ pc' = IF out.outcome = "raised" THEN "raised" ELSE "done"
       /\ res' = CASE out.outcome = "raised" -> res
                   [] out.outcome = "none"   -> [none |-> TRUE, rows |-> <<>>]
                   [] out.outcome = "frame"  -> [none |-> FALSE, rows |-> out.results]
       /\ df' = IF out.outcome = "frame" THEN out.bars ELSE df
       /\ MA' = IF out.outcome = "frame" THEN out.ma ELSE MA
       /\ Fundamental' = IF out.outcome = "frame" THEN out.fund ELSE Fundamental
       /\ Signal' = IF out.outcome = "frame" THEN out.signal ELSE Signal
  /\ UNCHANGED <<filings, fund_params, date_index, fund_df, condition, scanVars,
                 DataReader, start_date, end_date, n_days, target_stocks>>

NextBacktest == Backtest

SpecBacktest == InitBacktest /\ [][NextBacktest]_vars

\* ------------------------------------------------------------------------
\* The scan: the widgets of one script run are drawn; the run stops, or
\* builds the conditions and the targets, evaluates the securities one by
\* one and shows the summary
\* ------------------------------------------------------------------------

\* histories that end two up, two down, or up and back
Histories ==
  {PriceSeries(MinBars + 1, [k \in 1..2 |-> [Open |-> 100, Close |-> c[k], Volume |-> 1000]]) :
     c \in {<<104, 108>>, <<96, 92>>, <<104, 100>>}}

InitScan ==
  /\ pc = "start"
  /\ button \in {"scan_top", "scan_all", "stop_scan"}
  /\ use_fundamental \in BOOLEAN
  /\ opendart_api_key \in {"", "key"}
  /\ fund_rules \in {<<>>, [k \in {"debt_ratio"} |-> DebtCeiling]}
  /\ (use_fundamental /\ opendart_api_key # "") \/ fund_rules = <<>>
  /\ condition_params \in {<<>>, [k \in {"change"} |-> Rule(k, 1)]}
  /\ DataReader \in [{StockList[k].Code : k \in 1..MaxStocks} ->
                       {Raises, Answers(<<>>)} \cup {Answers(h) : h \in Histories}]
  /\ filings \in {<<>>, SoundFiling}
  /\ start_date = TradingDay(MinBars - 1)
  /\ end_date = TradingDay(MinBars + 1)
  /\ n_days = 1
  /\ target_stocks = <<>>
  /\ condition = <<>>
  /\ res = NoResult
  /\ idx = 0
  /\ progress = <<>>
  /\ final_results = <<>>
  /\ filtered_summary = <<>>
  /\ df = <<>>
  /\ MA = <<>>
  /\ Fundamental = <<>>
  /\ Signal = <<>>
  /\ fund_params = <<>>
  /\ date_index = {}
  /\ fund_df = <<>>

\* if stop_scan: st.stop()
StopScan ==
  /\ pc = "start"
  /\ button = "stop_scan"
  /\ pc' = "stopped"
  /\ UNCHANGED <<fundVars, techVars, callVars, scanVars>>

\* if start_scan or start_all: the conditions and the targets are set, the
\* targets out of the list that get_stock_list returned
StartScanOn(stock_list) ==
  /\ pc = "start"
  /\ button \in {"scan_top", "scan_all"}
  /\ condition' = ScanConditions(condition_params,
                     FundConditionsTab2(use_fundamental, opendart_api_key, fund_rules))
  /\ target_stocks' = TargetStocks(stock_list, button)
  /\ final_results' = <<>>
  /\ idx' = 0
  /\ progress' = <<0, 1>>
  /\ pc' = "scanning"
  /\ UNCHANGED <<fundVars, df, MA, Signal, DataReader, start_date, end_date, n_days, res,
                 button, use_fundamental, opendart_api_key, fund_rules, condition_params,
                 filtered_summary>>

\* the start of a scan of one market
StartScan == StartScanOn(StockList)

\* one pass of the loop over target_stocks; idx counts the passes begun.
\* An exception of backtest_single_stock is caught nowhere: it ends the run.
ScanStock ==
  /\ pc = "scanning"
  /\ idx < Len(target_stocks)
  /\ \E row \in {target_stocks[idx + 1]} :
       /\ progress' = <<row.index + 1, Len(target_stocks)>>
       /\ \E out \in {backtest_single_stock(row.Code, row.Name, start_date, end_date,
                                            condition, n_days)} :
            /\ pc' = IF out.outcome = "raised" THEN "crashed" ELSE "scanning"
            /\ res' = CASE out.outcome = "raised" -> res
                        [] out.outcome = "none"   -> [none |-> TRUE, rows |-> <<>>]
                        [] out.outcome = "frame"  -> [none |-> FALSE, rows |-> out.results]
            /\ final_results' =
                 IF out.outcome = "frame" /\ Len(out.results) > 0
                   THEN Append(final_results, Summary(row, out.results))
                   ELSE final_results
  /\ idx' = idx + 1
  /\ UNCHANGED <<fundVars, techVars, DataReader, start_date, end_date, n_days, target_stocks,
                 button, use_fundamental, opendart_api_key, fund_rules, condition_params,
                 filtered_summary>>

\* after the loop: the summary is sorted, filtered and shown
FinishScan ==
  /\ pc = "scanning"
  /\ idx = Len(target_stocks)
  /\ filtered_summary' = FilteredSummary(final_results)
  /\ progress' = <<>>
  /\ pc' = "done"
  /\ UNCHANGED <<fundVars, techVars, callVars, button, use_fundamental, opendart_api_key,
                 fund_rules, condition_params, idx, final_results>>

NextScan == StopScan \/ StartScan \/ ScanStock \/ FinishScan

SpecScan == InitScan /\ [][NextScan]_vars

\* ------------------------------------------------------------------------
\* The daily-change rule at the limits of its bands: the last close of a
\* quiet series is drawn around the close before it, and one change rule of
\* the sidebar is asked
\* ------------------------------------------------------------------------
\* the last close is within MaxMove of the close before it
MaxMove == 10

BandSeries ==
  {PriceSeries(MinBars, <<[Open |-> BaseBar.Close, Close |-> c, Volume |-> BaseBar.Volume]>>) :
     c \in (BaseBar.Close - MaxMove)..(BaseBar.Close + MaxMove)}

\* condition_params with the change rule only
ChangeRules ==
  {[kind \in {"change"} |-> [range |-> r, direction |-> d]] :
     r \in {"3~5", "5~7", "7~9", "9+"}, d \in {"up", "down"}}

InitBand ==
  /\ pc = "start"
  /\ df \in BandSeries
  /\ MA = calculate_mas(df, MaPeriods)
  /\ condition \in ChangeRules
  /\ Fundamental = <<>>
  /\ Signal = <<>>
  /\ FundIdle
  /\ CallIdle
  /\ ScanIdle

NextBand == CheckConditions

SpecBand == InitBand /\ [][NextBand]_vars

\* ------------------------------------------------------------------------
\* check_conditions called with a cross or breakout rule whose operator is
\* one of the two the sidebar offers, or some other string
\* ------------------------------------------------------------------------
OperatorRules ==
  {[kind \in {"ma_cross"} |-> [ma1 |-> 5, ma2 |-> 20, operator |-> op]] :
     op \in {">", "<", ">=", "="}}
  \cup {[kind \in {"breakout"} |-> [price_type |-> pt, operator |-> op, target_ma |-> 5]] :
          pt \in {"Open", "Close"}, op \in {">", "<", ">=", "="}}

InitOperator ==
  /\ pc = "start"
  /\ df \in {PriceSeries(MinBars, tail) : tail \in [1..MaxTail -> TailBars]}
  /\ MA = calculate_mas(df, MaPeriods)
  /\ condition \in OperatorRules
  /\ Fundamental = <<>>
  /\ Signal = <<>>
  /\ FundIdle
  /\ CallIdle
  /\ ScanIdle

NextOperator == CheckConditions

SpecOperator == InitOperator /\ [][NextOperator]_vars

\* ------------------------------------------------------------------------
\* The simulator on the five closes 10, 10.5, 11, 12, 13.  Prices are
\* written in halves (20, 21, 22, 24, 26): every price and average of the
\* run is then twice the one in the code, exactly, and every return is the
\* same float.  The five bars are the whole history, or follow quiet bars.
\* ------------------------------------------------------------------------
ExampleSeries(lead) ==
  PriceSeries(lead + 5, [k \in 1..5 |->
     [Open |-> <<20, 21, 22, 24, 26>>[k], Close |-> <<20, 21, 22, 24, 26>>[k],
      Volume |-> BaseBar.Volume]])

\* the period starts on the third of the five days
InitExample ==
  /\ pc = "start"
  /\ target_stocks = <<StockList[1]>>
  /\ \E lead \in {0, MinBars - 5, MinBars - 3, MinBars - 1} :
       /\ DataReader = [c \in {"A"} |-> Answers(ExampleSeries(lead))]
       /\ start_date = TradingDay(lead + 3)
       /\ end_date \in {TradingDay(lead + k) : k \in 3..5}
  /\ filings = <<>>
  /\ n_days \in Horizons
  /\ condition \in {<<>>,
                    [k \in {"ma"} |-> [ma1 |-> 1, ma2 |-> 2, ma3 |-> 3]],
                    [k \in {"breakout"} |->
                       [price_type |-> "Close", operator |-> ">", target_ma |-> 2]]}
  /\ res = NoResult
  /\ df = <<>>
  /\ MA = <<>>
  /\ Fundamental = <<>>
  /\ Signal = <<>>
  /\ fund_params = <<>>
  /\ date_index = {}
  /\ fund_df = <<>>
  /\ ScanIdle

NextExample == Backtest

SpecExample == InitExample /\ [][NextExample]_vars

\* ------------------------------------------------------------------------
\* The streak rules on short and long histories: up to MaxStreak filings of
\* one account, Revenue (which a growth rule reads) or OperatingCashFlow
\* (the free cash flow the surplus rule reads, no capital expenditure being
\* reported), under one streak rule
\* ------------------------------------------------------------------------
MaxStreak == 4

\* -1, 0, 3, 5
StreakAmounts == {-10, 0, 30, 50}

InitStreak ==
  /\ pc = "start"
  /\ date_index = Calendar
  /\ fund_df = <<>>
  /\ Fundamental = <<>>
  /\ TechIdle
  /\ CallIdle
  /\ ScanIdle
  /\ \E shape \in Shapes, n \in 0..MaxStreak, key \in {"rev_3q", "rev_3y", "fcf_3q", "fcf_3y"},
        account \in {"Revenue", "OperatingCashFlow"} :
       \E amounts \in [1..n -> StreakAmounts] :
         /\ filings = [k \in 1..n |-> RawRow(Period(shape, k), account, amounts[k])]
         /\ fund_params = OneRule(key, GrowthThreshold)

NextStreak == ProcessFundamental

SpecStreak == InitStreak /\ [][NextStreak]_vars

\* ------------------------------------------------------------------------
\* The single backtest of tab 1: the sidebar's condition (it never has the
\* fundamental rules) is run on one security and the outcome is shown.  pc
\* is what the page shows at the end.
\* ------------------------------------------------------------------------
\* what tab 1 shows for an outcome of backtest_single_stock: the summary and
\* the trades under st.success, the st.warning '설정된 기간 내에 조건에
\* 부합하는 신호가 없습니다.', or the exception nothing has caught
TabOneReport(out) ==
  CASE out.outcome = "raised" -> "raised"
    [] out.outcome = "frame" /\ Len(out.results) > 0 -> "success"
    [] OTHER -> "warning_no_signal"

InitSingle ==
  /\ InitBacktest
  /\ "fundamental" \notin DOMAIN condition

SingleBacktest ==
  /\ pc = "start"
  /\ \E out \in {backtest_single_stock(target_stocks[1].Code, target_stocks[1].Name,
                                       start_date, end_date, condition, n_days)} :
       /\ pc' = TabOneReport(out)
       /\ res' = CASE out.outcome = "raised" -> res
                   [] out.outcome = "none"   -> [none |-> TRUE, rows |-> <<>>]
                   [] out.outcome = "frame"  -> [none |-> FALSE, rows |-> out.results]
       /\ df' = IF out.outcome = "frame" THEN out.bars ELSE df
       /\ MA' = IF out.outcome = "frame" THEN out.ma ELSE MA
       /\ Fundamental' = IF out.outcome = "frame" THEN out.fund ELSE Fundamental
       /\ Signal' = IF out.outcome = "frame" THEN out.signal ELSE Signal
  /\ UNCHANGED <<filings, fund_params, date_index, fund_df, condition, scanVars,
                 DataReader, start_date, end_date, n_days, target_stocks>>

NextSingle == SingleBacktest

SpecSingle == InitSingle /\ [][NextSingle]_vars

\* ------------------------------------------------------------------------
\* The scan with the '검색 중지' button pressed while the loop is running.
\* The run has read the buttons before the loop (stop_scan at its start);
\* button is the one last pressed on the page.
\* ------------------------------------------------------------------------
PressStop ==
  /\ pc = "scanning"
  /\ button # "stop_scan"
  /\ button' = "stop_scan"
  /\ UNCHANGED <<pc, fundVars, techVars, callVars, use_fundamental, opendart_api_key,
                 fund_rules, condition_params, idx, progress, final_results,
                 filtered_summary>>

NextCancel == NextScan \/ PressStop

SpecCancel == InitScan /\ [][NextCancel]_vars

\* ------------------------------------------------------------------------
\* The simulator on prices that move by a unit or two: a history of
\* MinBars + 1 bars whose last three closes are 30000 and two closes drawn
\* next to it, under no rule
\* ------------------------------------------------------------------------
InitTick ==
  /\ pc = "start"
  /\ target_stocks = <<StockList[1]>>
  /\ \E c \in [1..2 -> {29999, 30000, 30001, 30002, 30150}] :
       DataReader = [code \in {"A"} |->
          Answers(PriceSeries(MinBars + 1,
             [k \in 1..3 |-> [Open |-> 30000, Close |-> <<30000, c[1], c[2]>>[k],
                              Volume |-> BaseBar.Volume]]))]
  /\ filings = <<>>
  /\ start_date \in {TradingDay(MinBars - 1), TradingDay(MinBars)}
  /\ end_date = TradingDay(MinBars + 1)
  /\ n_days \in Horizons
  /\ condition = <<>>
  /\ res = NoResult
  /\ df = <<>>
  /\ MA = <<>>
  /\ Fundamental = <<>>
  /\ Signal = <<>>
  /\ fund_params = <<>>
  /\ date_index = {}
  /\ fund_df = <<>>
  /\ ScanIdle

NextTick == Backtest

SpecTick == InitTick /\ [][NextTick]_vars

\* ------------------------------------------------------------------------
\* The scan over the universes: the market of the radio button, an uploaded
\* list or none, and a listing service that answers or fails are drawn at
\* the start of the scan
\* ------------------------------------------------------------------------

\* fdr.StockListing(market): the securities of one market, numbered from 0
StockListing(market) ==
  IF market = "KOSPI" THEN StockList
  ELSE <<[index |-> 0, Code |-> "C", Name |-> "Gamma"]>>

\* st.file_uploader: no file, a list of two securities, a file without the
\* column Name
Uploads ==
  {[none |-> TRUE, columns |-> {}, rows |-> <<>>],
   [none |-> FALSE, columns |-> {"Code", "Name"},
    rows |-> <<[Code |-> "C", Name |-> "Gamma"], [Code |-> "A", Name |-> "Alpha"]>>],
   [none |-> FALSE, columns |-> {"Code"}, rows |-> <<[Code |-> "B", Name |-> ""]>>]}

\* get_stock_list: the frame keeps the row labels of the frames it is made
\* of; pd.read_csv and pd.DataFrame(data) number the rows from 0, pd.concat
\* keeps the labels of both frames
get_stock_list(market_type, uploaded_file, fails) ==
  IF ~uploaded_file.none
    THEN IF ~({"Code", "Name"} \subseteq uploaded_file.columns)
           THEN <<>>
           ELSE [k \in 1..Len(uploaded_file.rows) |->
                   [index |-> k - 1, Code |-> uploaded_file.rows[k].Code,
                    Name |-> uploaded_file.rows[k].Name]]
    ELSE IF fails
           THEN StockList
           ELSE IF market_type \in {"KOSPI", "KOSDAQ"}
                  THEN StockListing(market_type)
                  ELSE StockListing("KOSPI") \o StockListing("KOSDAQ")

InitUniverse ==
  /\ pc = "start"
  /\ button \in {"scan_top", "scan_all"}
  /\ use_fundamental = FALSE
  /\ opendart_api_key = ""
  /\ fund_rules = <<>>
  /\ condition_params = <<>>
  /\ DataReader \in [{"A", "B", "C"} -> {Answers(<<>>)} \cup {Answers(h) : h \in Histories}]
  /\ filings = <<>>
  /\ start_date = TradingDay(MinBars - 1)
  /\ end_date = TradingDay(MinBars + 1)
  /\ n_days = 1
  /\ target_stocks = <<>>
  /\ condition = <<>>
  /\ res = NoResult
  /\ idx = 0
  /\ progress = <<>>
  /\ final_results = <<>>
  /\ filtered_summary = <<>>
  /\ df = <<>>
  /\ MA = <<>>
  /\ Fundamental = <<>>
  /\ Signal = <<>>
  /\ fund_params = <<>>
  /\ date_index = {}
  /\ fund_df = <<>>

\* stock_list = get_stock_list(market_select, uploaded_file)
StartUniverseScan ==
  \E market_select \in {"KOSPI", "KOSDAQ", "ALL"}, uploaded_file \in Uploads, fails \in BOOLEAN :
     StartScanOn(get_stock_list(market_select, uploaded_file, fails))

NextUniverse == StartUniverseScan \/ ScanStock \/ FinishScan

SpecUniverse == InitUniverse /\ [][NextUniverse]_vars

\* ------------------------------------------------------------------------
\* Properties of the fundamental evaluator (SpecFund)
\* ------------------------------------------------------------------------
Evaluated == pc = "done"

\* the filings whose effective date is on or before d
FiledBy(rows, d) == Filter(rows, LAMBDA r : get_release_date(r) <= d)

\* C1: point-in-time on the filing side.  The gate on a trading day d is the
\* gate the filings with effective date <= d alone give on d: the filings
\* dated after d change nothing on d.
C1_PointInTimeFilings ==
  Evaluated =>
    \A d \in date_index :
      Fundamental[d] =
        process_fundamental_data(date_index, FiledBy(filings, d), fund_params)[d]

\* C1: a security whose filings all come after the first trading day, under
\* a rule-less condition, has been evaluated
C1_Reached ==
  /\ Evaluated
  /\ DOMAIN fund_params = {"api_key"}
  /\ Len(filings) > 0
  /\ \E d \in date_index : Len(FiledBy(filings, d)) = 0

\* the frame df cut after its first k bars, as the provider would have
\* returned it on the day of bar k
SignalOfFirst(k) ==
  check_conditions(SubSeq(df, 1, k), calculate_mas(SubSeq(df, 1, k), MaPeriods),
                   Fundamental, condition)

\* C2: the signal of a trading day is the same whatever bars follow that
\* day: cutting the last bars off the series (one or two of them) leaves
\* the signal of every remaining day as it was
C2_PointInTimePrices ==
  Evaluated =>
    \A k \in {n \in (Len(df) - MaxTail)..(Len(df) - 1) : n >= 1} :
       \E earlier \in {SignalOfFirst(k)} : \A i \in 1..k : earlier[i] = Signal[i]

\* a series of MinBars bars has been evaluated and has a signal on a day
\* before its last
C2_Reached ==
  /\ Evaluated
  /\ Len(df) = MinBars
  /\ \E i \in 1..(Len(df) - 1) : Signal[i]

\* row numbers (from 0) of the signal days of the period
SignalRows ==
  {p \in 0..(Len(df) - 1) :
     Signal[p + 1] /\ df[p + 1].Date >= start_date /\ df[p + 1].Date <= end_date}

\* min(p + n, L - 1)
ExitRow(p) == IF p + n_days <= Len(df) - 1 THEN p + n_days ELSE Len(df) - 1

TradesOf(p) == Filter(res.rows, LAMBDA t : t.entry_date = df[p + 1].Date)

\* C3: a signal day at row p of a frame of L rows is sold at row
\* min(p + n, L - 1), and a trade is emitted for it exactly when that row is
\* after p (so none for a signal on the last row, and one that exits on the
\* last row for a signal two rows before it with n = 5)
C3_BoundaryRule ==
  (Evaluated /\ ~res.none) =>
     \A p \in SignalRows :
        /\ Len(TradesOf(p)) = (IF ExitRow(p) > p THEN 1 ELSE 0)
        /\ \A k \in 1..Len(TradesOf(p)) :
              /\ TradesOf(p)[k].entry_price = df[p + 1].Close
              /\ TradesOf(p)[k].exit_date = df[ExitRow(p) + 1].Date
              /\ TradesOf(p)[k].exit_price = df[ExitRow(p) + 1].Close

\* with n = 5 there was a signal on the last row, sold nowhere, and one two
\* rows before it, sold on the last row
C3_Reached ==
  /\ Evaluated
  /\ ~res.none
  /\ n_days = 5
  /\ Len(df) >= 3
  /\ (Len(df) - 1) \in SignalRows
  /\ (Len(df) - 3) \in SignalRows
  /\ Len(TradesOf(Len(df) - 1)) = 0
  /\ \E k \in 1..Len(res.rows) :
        /\ res.rows[k].entry_date = df[Len(df) - 2].Date
        /\ res.rows[k].exit_date = df[Len(df)].Date

\* C4: when the fundamental conditions are asked for and the key is absent
\* or no filing comes back, the gate is false on every day, so the run
\* emits no trade: no security gets a summary row
C4_FailsClosed ==
  (/\ pc \in {"scanning", "done"}
   /\ use_fundamental
   /\ (opendart_api_key = "" \/ Len(filings) = 0))
    => (final_results = <<>> /\ Len(res.rows) = 0)

\* a scan with the conditions asked for and no key has ended with a summary
C4_Reached ==
  /\ pc = "done"
  /\ use_fundamental
  /\ opendart_api_key = ""
  /\ Len(final_results) > 0

\* C5: once a security whose price provider raises has had its turn, the
\* scan is still on its way through the other securities or has shown the
\* summary: the failure has not ended the run
C5_FaultIsolation ==
  (\E k \in 1..idx : DataReader[target_stocks[k].Code].raises)
     => pc \in {"scanning", "done"}

\* the provider raised for a security that was not the last one
C5_Reached ==
  /\ pc = "crashed"
  /\ idx >= 1
  /\ DataReader[target_stocks[idx].Code].raises
  /\ idx < Len(target_stocks)

\* C6: a series of fewer than 120 bars gets false on every bar, whatever
\* rule kinds the ConditionSpec has
C6_ShortSeriesAllFalse ==
  (Evaluated /\ Len(df) < 120) =>
     /\ Len(Signal) = Len(df)
     /\ \A i \in 1..Len(df) : ~Signal[i]

\* a series of 119 bars has been evaluated under no rule at all
C6_Reached ==
  /\ Evaluated
  /\ Len(df) = 119
  /\ DOMAIN condition = {}
  /\ Len(Signal) = 119

\* MA(left) op MA(right) holds on bar i, both averages being defined
HoldsOn(i) ==
  Compare(MA[condition["ma_cross"].ma1][i], condition["ma_cross"].operator,
          MA[condition["ma_cross"].ma2][i])

DefinedOn(i) ==
  /\ MA[condition["ma_cross"].ma1][i] # NaN
  /\ MA[condition["ma_cross"].ma2][i] # NaN

ExampleMA20 == <<F64(18), F64(19), F64(20), F64(21)>>

ExampleMA60 == <<F64(20), F64(20), F64(20), F64(19)>>

GrowthKeys == DOMAIN fund_params \cap {"rev_3q", "rev_3y"}

\* the observations of Revenue the rule of key looks at, in filing order
Observations(key) ==
  Filter(filings, LAMBDA r : /\ r.account_nm = "Revenue"
                             /\ (KeyPeriod(key) = "year" => r.reprt_code = AnnualReport))

\* (b - a) / |a| * 100 >= thr, 0 >= thr when a = 0, over the decimals a, b
StepMeets(a, b, thr) ==
  IF a = 0 THEN 0 >= thr
  ELSE (b - a) * 100 >= thr * (IF a < 0 THEN -a ELSE a)

\* C8: growth streak broadcast.  The growth mask is true on d exactly when
\* the latest observation i filed by d has three observations before it and
\* the three changes up to it all reach the threshold; the changes are taken
\* as the numbers they are, so that 100, 110, 121, 133.1 is three steps of 10%.
C8_GrowthStreak ==
  Evaluated =>
    \A key \in GrowthKeys :
      LET obs == Observations(key)
          t(i) == get_release_date(obs[i])
          v(i) == obs[i].thstrm_amount
          Latest(i, d) == t(i) <= d /\ (i < Len(obs) => d < t(i + 1))
      IN  \A d \in date_index :
            Fundamental[d] <=>
              \E i \in 4..Len(obs) :
                /\ Latest(i, d)
                /\ \A j \in (i - 2)..i : StepMeets(v(j - 1), v(j), fund_params[key])

\* C8: 100, 110, 121, 133.1 with threshold 10 has been evaluated
C8_Reached ==
  /\ Evaluated
  /\ GrowthKeys # {}
  /\ \A key \in GrowthKeys :
       /\ fund_params[key] = GrowthThreshold
       /\ Len(Observations(key)) = Len(CompoundAmounts)
       /\ \A i \in 1..Len(CompoundAmounts) :
            Observations(key)[i].thstrm_amount = CompoundAmounts[i]

\* the rows of one account of one filing period in the evaluator's frame
RowsOf(period, account) ==
  Filter(fund_df, LAMBDA r : SameFiling(r, period) /\ r.account_nm = account)

Reported(period, account) == Len(RowsOf(period, account)) > 0

AmountOf(period, account) == RowsOf(period, account)[1].amount

FilingPeriods == {QuarterlyPeriod(k) : k \in 1..MaxObs} \cup {AnnualPeriod(k) : k \in 1..MaxObs}

\* C9 as stated: a derived observation exists only when both of its inputs
\* exist for the same (year, report code).
C9_OnlyFromCompleteInputs ==
  Evaluated =>
    \A p \in FilingPeriods :
      /\ Reported(p, "FCF") =>
           Reported(p, "OperatingCashFlow") /\ Reported(p, "CapitalExpenditure")
      /\ Reported(p, "OperatingMargin") =>
           Reported(p, "OperatingIncome") /\ Reported(p, "Revenue")

\* C9, amended: a FreeCashFlow observation exists for every (year, report
\* code) that reports OperatingCashFlow, and is OCF - |CapEx| with a missing
\* CapitalExpenditure taken as zero; an OperatingMargin observation exists
\* exactly when both OperatingIncome and Revenue are reported.
C9_DerivedMetrics ==
  Evaluated /\ Len(filings) > 0 =>
    \A p \in FilingPeriods :
      /\ Reported(p, "FCF") <=> Reported(p, "OperatingCashFlow")
      /\ Reported(p, "FCF") =>
           AmountOf(p, "FCF") =
             F64Sub(AmountOf(p, "OperatingCashFlow"),
                    IF Reported(p, "CapitalExpenditure")
                      THEN F64Abs(AmountOf(p, "CapitalExpenditure"))
                      ELSE F64Zero)
      /\ Reported(p, "OperatingMargin") <=>
           Reported(p, "OperatingIncome") /\ Reported(p, "Revenue")

\* C9: a filing with OperatingCashFlow and without CapitalExpenditure, next
\* to a filing that reports both, has been normalised, and so has a filing
\* with Revenue and without OperatingIncome
C9_Reached ==
  /\ Evaluated
  /\ \E p, q \in FilingPeriods :
       /\ Reported(p, "OperatingCashFlow") /\ ~Reported(p, "CapitalExpenditure")
       /\ Reported(p, "FCF")
       /\ Reported(q, "OperatingCashFlow") /\ Reported(q, "CapitalExpenditure")
       /\ Reported(p, "Revenue") /\ ~Reported(p, "OperatingIncome")

\* the filing periods, of those filed by d, that report both accounts
Paired(d) ==
  {p \in FilingPeriods :
     /\ get_release_date(p) <= d
     /\ Reported(p, "Equity") /\ Reported(p, "Liabilities")}

LatestPaired(d) ==
  CHOOSE p \in Paired(d) :
    \A q \in Paired(d) : get_release_date(q) <= get_release_date(p)

\* the amount of the drawn filing, in tenths
TenthsOf(period, account) ==
  Filter(filings, LAMBDA r : SameFiling(r, period) /\ r.account_nm = account)[1].thstrm_amount

\* C10: debt-ratio gate.  On every trading day d the gate is true exactly
\* when the latest filing by d that reports both Equity and Liabilities has
\* Equity > 0 and Liabilities / Equity * 100 <= ceiling; a later filing that
\* leaves one of them out changes nothing.
C10_LatestPairing ==
  Evaluated /\ "debt_ratio" \in DOMAIN fund_params =>
    \A d \in date_index :
      Fundamental[d] <=>
        /\ Paired(d) # {}
        /\ TenthsOf(LatestPaired(d), "Equity") > 0
        /\ TenthsOf(LatestPaired(d), "Liabilities") * 100
             <= fund_params["debt_ratio"] * TenthsOf(LatestPaired(d), "Equity")

\* C10: a filing within the ceiling followed by a filing that leaves Equity
\* or Liabilities out has been evaluated
C10_Reached ==
  /\ Evaluated
  /\ "debt_ratio" \in DOMAIN fund_params
  /\ \E p, q \in FilingPeriods :
       /\ get_release_date(p) < get_release_date(q)
       /\ p \in Paired(get_release_date(p))
       /\ TenthsOf(p, "Equity") > 0
       /\ TenthsOf(p, "Liabilities") * 100 <= fund_params["debt_ratio"] * TenthsOf(p, "Equity")
       /\ \E i \in 1..Len(filings) : SameFiling(filings[i], q)
       /\ ~(Reported(q, "Equity") /\ Reported(q, "Liabilities"))

\* ------------------------------------------------------------------------
\* Properties of the daily-change rule (SpecBand)
\* ------------------------------------------------------------------------
\* the band limit of lim percent, and the move of row i, both as multiples
\* of a hundredth of the close before row i
LimitAt(i, lim) == lim * df[i - 1].Close

MoveAt(i) == 100 * (df[i].Close - df[i - 1].Close)

\* C11: under a change rule alone the mask is true on a bar exactly when
\* the close-to-close return is in [min, max) for direction up, and in
\* [-max, -min], both ends included, for direction down
C11_ChangeBand ==
  (Evaluated /\ DOMAIN condition = {"change"} /\ Len(df) >= MinBars) =>
     \A i \in 2..Len(df) :
        \E band \in {ChangeBand(condition["change"].range)} :
           Signal[i] =
             IF condition["change"].direction = "up"
               THEN /\ LimitAt(i, band.min) <= MoveAt(i)
                    /\ (band.open \/ MoveAt(i) < LimitAt(i, band.max))
               ELSE /\ MoveAt(i) <= -LimitAt(i, band.min)
                    /\ (band.open \/ -LimitAt(i, band.max) <= MoveAt(i))

\* a fall of exactly 5 percent on the last bar was evaluated under the
\* down band 3~5, and the mask is false there
C11_Reached ==
  /\ Evaluated
  /\ condition = [kind \in {"change"} |-> [range |-> "3~5", direction |-> "down"]]
  /\ Len(df) >= MinBars
  /\ MoveAt(Len(df)) = -LimitAt(Len(df), 5)
  /\ ~Signal[Len(df)]

\* ------------------------------------------------------------------------
\* Properties of check_conditions on a malformed ConditionSpec (SpecOperator)
\* ------------------------------------------------------------------------
MalformedOperator ==
  \E kind \in DOMAIN condition \cap {"ma_cross", "breakout"} :
     condition[kind].operator \notin {">", "<"}

\* the ConditionSpec with '<' in the place of every operator
WithLess == [kind \in DOMAIN condition |-> [condition[kind] EXCEPT !.operator = "<"]]

\* C12: a call of check_conditions with a cross or breakout rule whose
\* operator is neither '>' nor '<' ends in an error raised to the caller
\* and leaves no signal mask
C12_MalformedIsReported ==
  (pc # "start" /\ MalformedOperator) => (pc = "raised" /\ Signal = <<>>)

\* a rule with an unknown operator was evaluated: the call returned the
\* mask of the same rule with '<', true on some bar
C12_Reached ==
  /\ pc = "done"
  /\ MalformedOperator
  /\ Signal = check_conditions(df, MA, Fundamental, WithLess)
  /\ \E i \in 1..Len(Signal) : Signal[i]

\* ------------------------------------------------------------------------
\* Properties of the scan aggregator (SpecScan)
\* ------------------------------------------------------------------------
\* the rows of final_results of a security, and the winning trades of the
\* last backtest
SummariesOf(code) == {k \in 1..Len(final_results) : final_results[k].code = code}

Wins == {k \in 1..Len(res.rows) : F64Gt(res.rows[k].return_pct, F64Zero)}

\* C13: after the pass of a security, final_results has a row for it
\* exactly when its backtest returned at least one trade; the row counts
\* these trades, its win rate is 100 times the number of trades with a
\* return above 0 over the count, to the two decimals the row keeps, and
\* every row has a count of 1 or more and a win rate from 0 to 100
C13_NoEmptySummary ==
  (pc = "scanning" /\ idx >= 1) =>
     /\ \A k \in 1..Len(final_results) :
           /\ final_results[k].count >= 1
           /\ F64Ge(final_results[k].win_rate_pct, F64Zero)
           /\ F64Le(final_results[k].win_rate_pct, Hundred)
     /\ (SummariesOf(target_stocks[idx].Code) # {}) = (~res.none /\ Len(res.rows) >= 1)
     /\ \A k \in SummariesOf(target_stocks[idx].Code) :
           /\ final_results[k].count = Len(res.rows)
           /\ F64Le(F64Abs(F64Sub(F64Mul(final_results[k].win_rate_pct,
                                          F64(200 * Len(res.rows))),
                                   F64(20000 * Cardinality(Wins)))),
                    F64(Len(res.rows)))

\* a scan where one security came back with a frame and no trade and got no
\* row, after another with one trade, a losing one, got its row
C13_Reached ==
  /\ pc = "scanning"
  /\ idx = 2
  /\ ~res.none
  /\ Len(res.rows) = 0
  /\ Len(final_results) = 1
  /\ final_results[1].count = 1
  /\ final_results[1].win_rate_pct = F64Zero

\* thresholds a caller of the scan may ask for, in percent
WinRateThresholds == {50, 70}

\* the rows of the summary whose win rate is at least t percent
AtLeast(t) ==
  {final_results[k] : k \in {n \in 1..Len(final_results) :
                               F64Ge(final_results[n].win_rate_pct, F64(t))}}

\* C14: the list shown at the end of a scan is in non-increasing order of
\* average return, and whatever minimum win rate the caller asked for, it
\* holds exactly the summaries whose win rate is at least that minimum
C14_FinalOutput ==
  pc = "done" =>
     /\ \A k \in 1..(Len(filtered_summary) - 1) :
           F64Ge(filtered_summary[k].avg_return_pct, filtered_summary[k + 1].avg_return_pct)
     /\ \A t \in WinRateThresholds :
           {filtered_summary[k] : k \in 1..Len(filtered_summary)} = AtLeast(t)

\* a finished scan whose list was reordered by average return and shows a
\* security with a win rate of 50 percent, below a minimum of 70
C14_Reached ==
  /\ pc = "done"
  /\ Len(filtered_summary) = 2
  /\ filtered_summary[1] = final_results[2]
  /\ F64Gt(filtered_summary[1].avg_return_pct, filtered_summary[2].avg_return_pct)
  /\ filtered_summary[2].win_rate_pct = F64(50)

\* ------------------------------------------------------------------------
\* Properties of the simulator on the five-day example (SpecExample)
\* ------------------------------------------------------------------------
\* the run of the example: the five closes are the whole history, the rule
\* asks for the close (the average of one day) above the longer averages,
\* the horizon is one day and the period is the third day alone
ExampleRun ==
  /\ DataReader["A"].rows = ExampleSeries(0)
  /\ "ma" \in DOMAIN condition \/ "breakout" \in DOMAIN condition
  /\ n_days = 1
  /\ start_date = TradingDay(3)
  /\ end_date = TradingDay(3)

\* C15: the run of the example emits exactly one trade, bought at 11 (22
\* halves) and sold at 12 (24 halves), with a return of 9.09 percent, up
C15_EndToEnd ==
  (pc # "start" /\ ExampleRun) =>
     /\ pc = "done"
     /\ ~res.none
     /\ Len(res.rows) = 1
     /\ \A k \in 1..Len(res.rows) :
           /\ res.rows[k].entry_price = 22
           /\ res.rows[k].exit_price = 24
           /\ res.rows[k].return_pct = F64Div(F64(909), Hundred)
           /\ res.rows[k].result = "up"

\* the run of the example has ended with a frame of three bars, no signal
\* and no trade
C15_Reached ==
  /\ pc = "done"
  /\ ExampleRun
  /\ ~res.none
  /\ Len(df) = 3
  /\ \A i \in 1..Len(Signal) : ~Signal[i]
  /\ Len(res.rows) = 0

\* ------------------------------------------------------------------------
\* Properties of the streak rules (SpecStreak)
\* ------------------------------------------------------------------------
\* the filings the streak rule of key looks at, in filing order: those of
\* its account, the annual reports alone for period 'year'
StreakSeries(key) ==
  Filter(filings, LAMBDA r :
     /\ r.account_nm = (IF KeyPrefix(key) = "fcf" THEN "OperatingCashFlow" ELSE "Revenue")
     /\ (KeyPeriod(key) = "year" => r.reprt_code = AnnualReport))

\* observation i is the latest one filed by day d
LatestBy(obs, i, d) ==
  /\ get_release_date(obs[i]) <= d
  /\ (i < Len(obs) => d < get_release_date(obs[i + 1]))

\* C16: surplus streak broadcast.  The surplus mask is true on a day d
\* exactly when the latest observation filed by d is the third or a later
\* one and it and the two before it are all above 0
C16_SurplusStreak ==
  Evaluated =>
    \A key \in DOMAIN fund_params \cap {"fcf_3q", "fcf_3y"} :
      \E obs \in {StreakSeries(key)} :
        \A d \in date_index :
          Fundamental[d] <=>
            \E i \in 3..Len(obs) :
              /\ LatestBy(obs, i, d)
              /\ \A j \in (i - 2)..i : obs[j].thstrm_amount > 0

\* the cash flows 5, 3, 5, 0 were evaluated: the mask is true from the
\* third filing to the fourth and false on the days before and after
C16_Reached ==
  /\ Evaluated
  /\ "fcf_3q" \in DOMAIN fund_params
  /\ Len(StreakSeries("fcf_3q")) = 4
  /\ [k \in 1..Len(filings) |-> filings[k].thstrm_amount] = <<50, 30, 50, 0>>
  /\ Fundamental[get_release_date(filings[3])]
  /\ ~Fundamental[get_release_date(filings[2])]
  /\ ~Fundamental[get_release_date(filings[4])]

\* the observations a streak rule needs
NeededBy(key) == IF KeyPrefix(key) = "fcf" THEN SurplusObservations ELSE GrowthObservations

\* C17: a streak rule whose selected series (annual reports alone for
\* period 'year', every report for 'quarter') has fewer observations than
\* it needs, or none, ends without an error and its mask is false on
\* every trading day
C17_ShortHistoryIsFalse ==
  (pc # "start" /\ \E key \in DOMAIN fund_params \cap StreakKeys :
                      Len(StreakSeries(key)) < NeededBy(key)) =>
     (pc = "done" /\ \A d \in date_index : ~Fundamental[d])

\* four quarterly filings, all in surplus and growing, were evaluated under
\* a rule for period 'year': one annual report is not enough
C17_Reached ==
  /\ Evaluated
  /\ Len(filings) = 4
  /\ \A k \in 1..Len(filings) : filings[k].thstrm_amount > 0
  /\ \E key \in DOMAIN fund_params \cap {"rev_3y", "fcf_3y"} : Len(StreakSeries(key)) = 1
  /\ \A d \in date_index : ~Fundamental[d]

\* ------------------------------------------------------------------------
\* Properties of the composition of rules (SpecTech)
\* ------------------------------------------------------------------------
\* the ConditionSpec with the rules of kinds alone
Restricted(kinds) == [k \in kinds |-> condition[k]]

\* the mask check_conditions gives under the rules of kinds alone
MaskUnder(kinds) == check_conditions(df, MA, Fundamental, Restricted(kinds))

\* C18: on a series of 120 bars or more the mask is, bar by bar, the
\* conjunction of the masks of the rule kinds that are present, each taken
\* alone: with no rule every bar is true, and a bar that is true under all
\* the rules is true when any one of them is left out
C18_AndComposition ==
  (Evaluated /\ Len(df) >= MinBars) =>
     \E alone \in {[k \in DOMAIN condition |-> MaskUnder({k})]} :
        /\ \A i \in 1..Len(df) : Signal[i] = \A k \in DOMAIN condition : alone[k][i]
        /\ DOMAIN condition = {} => \A i \in 1..Len(df) : Signal[i]
        /\ \A k \in DOMAIN condition :
              \E without \in {MaskUnder(DOMAIN condition \ {k})} :
                 \A i \in 1..Len(df) : Signal[i] => without[i]

\* a rule of every kind was evaluated on 120 bars or more, the frame having
\* its Fundamental column: one bar passes all six rules, and another passes
\* one of them alone but not all
C18_Reached ==
  /\ Evaluated
  /\ Len(df) >= MinBars
  /\ DOMAIN condition = RuleKinds
  /\ DOMAIN Fundamental # {}
  /\ \E i \in 1..Len(df) : Signal[i]
  /\ \E i \in 1..Len(df), k \in RuleKinds : ~Signal[i] /\ MaskUnder({k})[i]

\* ------------------------------------------------------------------------
\* Properties of the single backtest of tab 1 (SpecSingle)
\* ------------------------------------------------------------------------
\* how the run went: the provider failed, it had no price data, the data
\* gave no trade, or there are trades
RunKind ==
  IF DataReader[target_stocks[1].Code].raises THEN "failure"
  ELSE IF res.none THEN "no_data"
  ELSE IF Len(res.rows) = 0 THEN "no_signals"
  ELSE "trades"

\* what the page shows for a run of each kind
ReportOf(kind) ==
  TabOneReport(CASE kind = "failure"    -> [outcome |-> "raised"]
                 [] kind = "no_data"    -> [outcome |-> "none"]
                 [] kind = "no_signals" -> [outcome |-> "frame", results |-> <<>>])

\* C19: what the page shows after a run without signals, a run without
\* price data, or a failed run is never what it shows for another of the
\* three
C19_OutcomesDistinct ==
  (pc # "start" /\ RunKind \in {"failure", "no_data", "no_signals"}) =>
     \A kind \in {"failure", "no_data", "no_signals"} \ {RunKind} : pc # ReportOf(kind)

\* the provider had no price data for the security, and the page shows
\* what it shows for a run without signals
C19_Reached ==
  /\ pc # "start"
  /\ RunKind = "no_data"
  /\ pc = ReportOf("no_signals")

\* ------------------------------------------------------------------------
\* Properties of the cancellation of a scan (SpecCancel)
\* ------------------------------------------------------------------------
\* C20: once the stop button has been pressed during a scan, the loop
\* starts the evaluation of no further security
C20_CooperativeCancel ==
  [][(pc = "scanning" /\ button = "stop_scan") => idx' = idx]_vars

\* the stop button was pressed during a scan with a security still to come,
\* and the loop is about to evaluate it
C20_Reached ==
  /\ pc = "scanning"
  /\ button = "stop_scan"
  /\ idx < Len(target_stocks)
  /\ ENABLED ScanStock

\* ------------------------------------------------------------------------
\* Properties of the trade list (SpecBacktest)
\* ------------------------------------------------------------------------
\* C21: the trades of a run are in strictly ascending order of entry date
\* (so a signal day has one trade at most), every entry date is a day of
\* the period on which Signal is true, and every exit date is after its
\* entry date
C21_TradeListShape ==
  (Evaluated /\ ~res.none) =>
     /\ \A k \in 1..(Len(res.rows) - 1) :
           res.rows[k].entry_date < res.rows[k + 1].entry_date
     /\ \A k \in 1..Len(res.rows) :
           /\ res.rows[k].entry_date >= start_date
           /\ res.rows[k].entry_date <= end_date
           /\ \E i \in 1..Len(df) : df[i].Date = res.rows[k].entry_date /\ Signal[i]
           /\ res.rows[k].exit_date > res.rows[k].entry_date

\* a run with two trades or more, a signal day before the period that has
\* no trade, and a signal day of the period (the last bar) that has none
C21_Reached ==
  /\ Evaluated
  /\ ~res.none
  /\ Len(res.rows) >= 2
  /\ \E i \in 1..Len(df) : Signal[i] /\ df[i].Date < start_date
  /\ Signal[Len(df)]
  /\ df[Len(df)].Date <= end_date
  /\ \A k \in 1..Len(res.rows) : res.rows[k].entry_date # df[Len(df)].Date

\* ------------------------------------------------------------------------
\* Properties of the direction of a trade (SpecTick)
\* ------------------------------------------------------------------------
\* C22: a trade is 'up' exactly when the return its record keeps, the one
\* rounded to two decimals that the win rate counts, is above 0
C22_DirectionIsWin ==
  (Evaluated /\ ~res.none) =>
     \A k \in 1..Len(res.rows) :
        (res.rows[k].result = "up") <=> F64Gt(res.rows[k].return_pct, F64Zero)

\* a trade bought at 30000 and sold at 30001 is 'up' and its record keeps
\* a return of 0
C22_Reached ==
  /\ Evaluated
  /\ ~res.none
  /\ \E k \in 1..Len(res.rows) :
        /\ res.rows[k].entry_price = 30000
        /\ res.rows[k].exit_price = 30001
        /\ res.rows[k].result = "up"
        /\ IsZero(res.rows[k].return_pct)

\* ------------------------------------------------------------------------
\* Properties of the progress of a scan (SpecUniverse)
\* ------------------------------------------------------------------------
\* C23: once the k-th pass of the loop over the N targets has begun, the
\* progress shown is k over N, whatever the universe came from
C23_ProgressIsCountOverTotal ==
  (pc \in {"scanning", "crashed"} /\ idx > 0) => progress = <<idx, Len(target_stocks)>>

\* the third pass of a scan of both markets, two securities of the first
\* and one of the second, shows one third
C23_Reached ==
  /\ pc = "scanning"
  /\ idx = 3
  /\ [k \in 1..3 |-> target_stocks[k].Code] = <<"A", "B", "C">>
  /\ progress = <<1, 3>>


====
